---- MODULE Spec2Model ----
(***************************************************************************)
(* URLsmanager: the URL classifier (URLParser), the operation engine       *)
(* (URLProcessor, main-thread and standalone-worker copies), the batch     *)
(* scheduler (PerformanceOptimizer.processBatches, the worker's            *)
(* processBatches) and the offload channel (WorkerManager, worker script,  *)
(* URLManager's dispatch and timeout handling).                            *)
(*                                                                         *)
(* Text is modelled as a sequence of tokens: a token is a separator        *)
(* ("://", ".", "/", "?", "#", " ") or a word.  String functions of the    *)
(* source (trim, toLowerCase, includes, split, replace) are computed on    *)
(* these sequences.                                                        *)
(***************************************************************************)
EXTENDS Integers, Sequences, FiniteSets, TLC

(***************************************************************************)
(* Bounds of the model and scaled program constants.                       *)
(***************************************************************************)
\* longest URL list handed to an operation
MaxLen == 3
\* number of processing runs URLManager starts
MaxRuns == 2
\* number of requests WorkerManager.processURLs hands out ids for
MaxRequests == 2
\* number of worker objects created by initialize()
MaxWorkers == 2
\* number of unhandled promise rejections inside one worker
MaxRejections == 1

\* url-worker.js:13 / url-worker-standalone.js: BATCH_SIZE = 1000, scaled
BATCH_SIZE == 2
\* url-processor.js:54 `urls.length > 1000`, scaled
LARGE_DATASET == 2
\* text-area-manager.js:799 `urls.length > 1000`, scaled
WORKER_THRESHOLD == 2
\* memory-manager.js:506 maxCacheSize = 1000, scaled
maxCacheSize == 4

(***************************************************************************)
(* Strings                                                                 *)
(***************************************************************************)
\* the element of a singleton: The({e(v) : v \in {E}}) is e with v naming
\* the value of E, computed once (a `const v = E`)
The(S) == CHOOSE v \in S : TRUE

WS == " "

\* String.prototype.toLowerCase on one token
ToLowerTok(t) ==
    CASE t = "A" -> "a"
      [] t = "COM" -> "com"
      [] t = "HTTPS" -> "https"
      [] OTHER -> t

toLowerCase(s) == [i \in 1..Len(s) |-> ToLowerTok(s[i])]

RECURSIVE trimStart(_)
trimStart(s) == IF s # <<>> /\ Head(s) = WS THEN trimStart(Tail(s)) ELSE s

RECURSIVE trimEnd(_)
trimEnd(s) ==
    IF s # <<>> /\ s[Len(s)] = WS THEN trimEnd(SubSeq(s, 1, Len(s) - 1)) ELSE s

\* String.prototype.trim
trim(s) == trimEnd(trimStart(s))

\* String.prototype.includes
includes(s, sub) ==
    \E i \in 0..(Len(s) - Len(sub)) : SubSeq(s, i + 1, i + Len(sub)) = sub

\* .replace(/\s+/g, '')
removeWhitespace(s) == SelectSeq(s, LAMBDA t : t # WS)

\* .replace(/\/+$/, '')
RECURSIVE stripTrailingSlashes(_)
stripTrailingSlashes(s) ==
    IF s # <<>> /\ s[Len(s)] = "/"
    THEN stripTrailingSlashes(SubSeq(s, 1, Len(s) - 1))
    ELSE s

\* index of the first token of s that lies in the set toks, Len(s)+1 if none
RECURSIVE FirstIndexFrom(_, _, _)
FirstIndexFrom(s, toks, i) ==
    IF i > Len(s) THEN Len(s) + 1
    ELSE IF s[i] \in toks THEN i
    ELSE FirstIndexFrom(s, toks, i + 1)

FirstIndex(s, toks) == FirstIndexFrom(s, toks, 1)

\* String.prototype.split(sep): the pieces between occurrences of sep
RECURSIVE split(_, _)
split(s, sep) ==
    LET k == FirstIndex(s, {sep}) IN
    IF k > Len(s) THEN <<s>>
    ELSE <<SubSeq(s, 1, k - 1)>> \o split(SubSeq(s, k + 1, Len(s)), sep)

\* Array.prototype.join(sep)
RECURSIVE join(_, _)
join(parts, sep) ==
    IF parts = <<>> THEN <<>>
    ELSE IF Len(parts) = 1 THEN parts[1]
    ELSE parts[1] \o <<sep>> \o join(Tail(parts), sep)

(***************************************************************************)
(* The platform's URL constructor, on token sequences: scheme "://"        *)
(* host [":" port] [path] ["?" query] ["#" fragment] for the schemes that  *)
(* take a host, and scheme ":" rest for any other scheme.  A string        *)
(* without a scheme is a relative reference and is rejected (no base URL   *)
(* is ever given).  The inputs hold no number as a host label but in the   *)
(* four-part address, and no scheme of several tokens.                     *)
(***************************************************************************)
Schemes == {"http", "https", "ftp"}

\* the tokens that are letters only, and those that are digits only
Words ==
    {"a", "A", "b", "p", "q", "com", "COM", "www", "invalid", "localhost",
     "org", "co", "uk", "constructor", "http", "https", "HTTPS", "ftp", "file",
     "local", "path"}

Numbers == {"1", "168", "192", "3000", "8080"}

BadURL == [ok |-> FALSE]

\* the part of s before / from the first token that lies in toks
Before(s, toks) == SubSeq(s, 1, FirstIndex(s, toks) - 1)

After(s, toks) == SubSeq(s, FirstIndex(s, toks), Len(s))

\* a lone "?" or "#" gives an empty search or hash
Component(part) == IF Len(part) <= 1 THEN <<>> ELSE part

\* what follows the ":" of host ":" port
PortOf(authority) ==
    IF FirstIndex(authority, {":"}) > Len(authority) THEN <<>>
    ELSE SubSeq(authority, FirstIndex(authority, {":"}) + 1, Len(authority))

\* scheme "://" authority ...: `rest` is what follows "://"; the host may be
\* empty for file: only
URLWithHost(scheme, rest, hostOptional) ==
    The({
        IF \/ host = <<>> /\ ~hostOptional
           \/ \E i \in 1..Len(host) : host[i] \in {WS, "://"}
           \/ Len(port) > 1
           \/ port # <<>> /\ port[1] \notin Numbers
        THEN BadURL
        ELSE [ok       |-> TRUE,
              protocol |-> <<scheme, ":">>,
              hostname |-> toLowerCase(host),
              port     |-> port,
              pathname |-> IF path = <<>> THEN <<"/">> ELSE path,
              search   |-> Component(query),
              hash     |-> Component(frag)]
        : host  \in {Before(Before(rest, {"/", "?", "#"}), {":"})},
          port  \in {PortOf(Before(rest, {"/", "?", "#"}))},
          path  \in {Before(After(rest, {"/", "?", "#"}), {"?", "#"})},
          query \in {Before(After(rest, {"?", "#"}), {"#"})},
          frag  \in {After(rest, {"#"})}})

\* scheme ":" rest, the scheme one that takes no host: the rest is the path
URLWithoutHost(scheme, rest) ==
    [ok       |-> TRUE,
     protocol |-> <<scheme, ":">>,
     hostname |-> <<>>,
     port     |-> <<>>,
     pathname |-> Before(rest, {"?", "#"}),
     search   |-> Component(Before(After(rest, {"?", "#"}), {"#"})),
     hash     |-> Component(After(rest, {"#"}))]

NewURL(input) ==
    The({
        IF Len(s) >= 2 /\ s[2] = "://" /\ ToLowerTok(s[1]) \in Schemes
        THEN URLWithHost(ToLowerTok(s[1]), SubSeq(s, 3, Len(s)), FALSE)
        ELSE IF Len(s) >= 2 /\ s[2] = "://" /\ s[1] = "file"
        THEN URLWithHost("file", SubSeq(s, 3, Len(s)), TRUE)
        ELSE IF Len(s) >= 2 /\ s[2] = ":" /\ ToLowerTok(s[1]) \in Schemes
        THEN URLWithHost(ToLowerTok(s[1]), SubSeq(s, 3, Len(s)), FALSE)
        ELSE IF Len(s) >= 2 /\ s[2] = ":" /\ s[1] \in Words
        THEN URLWithoutHost(ToLowerTok(s[1]), SubSeq(s, 3, Len(s)))
        ELSE BadURL
        : s \in {trim(input)}})

\* URL.prototype.toString (href)
Href(u) ==
    <<u.protocol[1], "://">> \o u.hostname
    \o (IF u.port = <<>> THEN <<>> ELSE <<":">> \o u.port)
    \o u.pathname \o u.search \o u.hash

(***************************************************************************)
(* URLParser (js/url-parser.js; the standalone worker carries a copy)      *)
(***************************************************************************)
normalizeUrl(url) == stripTrailingSlashes(removeWhitespace(trim(url)))

commonSecondLevel ==
    [sl \in {"co", "com", "net", "org", "gov", "edu", "ac"} |->
        CASE sl = "co"  -> {"uk", "jp", "kr", "za", "nz"}
          [] sl = "com" -> {"au", "br", "mx"}
          [] sl = "net" -> {"au"}
          [] sl = "org" -> {"au", "uk"}
          [] sl = "gov" -> {"uk", "au"}
          [] sl = "edu" -> {"au"}
          [] sl = "ac"  -> {"uk"}]

\* labels are token sequences; a key of the table is a one-token label
isCommonSecondLevelTLD(secondLevel, topLevel) ==
    /\ Len(secondLevel) = 1
    /\ secondLevel[1] \in DOMAIN commonSecondLevel
    /\ Len(topLevel) = 1
    /\ topLevel[1] \in commonSecondLevel[secondLevel[1]]

\* the lower-case names every object inherits: commonSecondLevel[name] is
\* then a function, which has no `includes`, and the call of it raises
InheritedKeys == {"constructor"}

lookupRaises(secondLevel) ==
    Len(secondLevel) = 1 /\ secondLevel[1] \in InheritedKeys

DomainParts(subdomain, domain, tld) ==
    [threw |-> FALSE, subdomain |-> subdomain, domain |-> domain, tld |-> tld]

extractDomainParts(hostname) ==
    IF hostname = <<>>
    THEN DomainParts(<<>>, <<>>, <<>>)
    ELSE The({
        LET n == Len(parts) IN
        IF n < 2
        THEN DomainParts(<<>>, hostname, <<>>)
        ELSE IF n = 2
        THEN DomainParts(<<>>, parts[1], parts[n])
        ELSE IF lookupRaises(parts[n - 1])
        THEN [DomainParts(<<>>, <<>>, <<>>) EXCEPT !.threw = TRUE]
        ELSE IF isCommonSecondLevelTLD(parts[n - 1], parts[n])
        THEN DomainParts(join(SubSeq(parts, 1, n - 3), "."), parts[n - 2],
                         parts[n])
        ELSE DomainParts(join(SubSeq(parts, 1, n - 2), "."), parts[n - 1],
                         parts[n])
        : parts \in {split(hostname, ".")}})

Invalid(url, err) == [original |-> url, valid |-> FALSE, error |-> err]

\* the record parse returns for a URL object; what extractDomainParts
\* raises is caught by the outer try of parse
Parsed(url, urlObj) ==
    The({IF domainParts.threw
         THEN Invalid(url, "includes is not a function")
         ELSE
         [original  |-> url,
          valid     |-> TRUE,
          protocol  |-> urlObj.protocol[1],
          hostname  |-> toLowerCase(urlObj.hostname),
          domain    |-> domainParts.domain,
          subdomain |-> domainParts.subdomain,
          tld       |-> domainParts.tld,
          path      |-> urlObj.pathname,
          search    |-> urlObj.search,
          fragment  |-> urlObj.hash]
         : domainParts \in {extractDomainParts(toLowerCase(urlObj.hostname))}})

\* `new URL(cleanUrl)`, retried with 'http://' in front when it raises and
\* cleanUrl holds no '://'
parse(url) ==
    IF url = <<>> THEN Invalid(url, "Invalid input")
    ELSE IF trim(url) = <<>> \/ url = <<"not-a-url">> \/ url = <<"://", "invalid">>
    THEN Invalid(url, "Invalid URL format")
    ELSE The({
        IF urlObj.ok THEN Parsed(url, urlObj)
        ELSE IF includes(cleanUrl, <<"://">>)
        THEN Invalid(url, "Invalid URL format")
        ELSE The({IF retried.ok THEN Parsed(url, retried)
                  ELSE Invalid(url, "Cannot parse URL")
                  : retried \in {NewURL(<<"http", "://">> \o cleanUrl)}})
        : cleanUrl \in {normalizeUrl(url)},
          urlObj   \in {NewURL(normalizeUrl(url))}})

isValid(url) ==
    IF url = <<>> \/ trim(url) = <<>> THEN FALSE
    ELSE IF url = <<"not-a-url">> \/ url = <<"://", "invalid">> THEN FALSE
    ELSE parse(url).valid

\* the JavaScript null returned by the getters
NULL == <<"\\null">>

getTLD(url) ==
    The({IF parsed.valid THEN parsed.tld ELSE NULL : parsed \in {parse(url)}})

getFullDomain(url) ==
    The({IF parsed.valid THEN parsed.hostname ELSE NULL : parsed \in {parse(url)}})

\* a test of the subdomain that lets `www` pass as none
hasSubdomainOtherThanWww(url) ==
    The({/\ parsed.valid
         /\ Len(parsed.subdomain) > 0
         /\ parsed.subdomain # <<"www">>
         : parsed \in {parse(url)}})

hasSubdomain(url) ==
    The({parsed.valid /\ Len(parsed.subdomain) > 0 : parsed \in {parse(url)}})

\* the tail of URLParser.removeParameters: search cleared, and the scheme
\* that was put in front taken off again
withoutSearch(urlObj, hasScheme) ==
    IF ~urlObj.ok THEN NULL
    ELSE IF hasScheme THEN Href([urlObj EXCEPT !.search = <<>>])
    ELSE Tail(Tail(Href([urlObj EXCEPT !.search = <<>>])))

\* URLParser.removeParameters
parserRemoveParameters(url) ==
    The({
        IF ~parsed.valid THEN NULL
        ELSE withoutSearch(
                 NewURL(IF includes(parsed.original, <<"://">>)
                        THEN parsed.original
                        ELSE <<"http", "://">> \o parsed.original),
                 includes(parsed.original, <<"://">>))
        : parsed \in {parse(url)}})

(***************************************************************************)
(* URLProcessor: the operations.  Each returns the result list and the     *)
(* number of times this.stats.invalidCount was incremented.                *)
(***************************************************************************)
\* an option that is not given (JavaScript undefined)
undefined == <<"\\undefined">>

\* `!url || typeof url !== 'string' || url.trim() === ''`
IsBlankEntry(url) == url = <<>> \/ trim(url) = <<>>

Out(results, invalid) == [results |-> results, invalidCount |-> invalid]

Skip(acc) == Out(acc.results, acc.invalidCount + 1)

\* an unshift in the place of the push
KeepInFront(acc, result) == Out(<<result>> \o acc.results, acc.invalidCount)

\* a push that also counts the entry it keeps as invalid
KeepCounted(acc, result) ==
    Out(Append(acc.results, result), acc.invalidCount + 1)

\* `results.push(...)`
Keep(acc, result) == Out(Append(acc.results, result), acc.invalidCount)

RECURSIVE removeParametersFrom(_, _, _)
removeParametersFrom(urls, i, acc) ==
    IF i > Len(urls) THEN acc
    ELSE IF IsBlankEntry(urls[i])
    THEN removeParametersFrom(urls, i + 1, Skip(acc))
    ELSE removeParametersFrom(urls, i + 1,
             The({IF cleanedUrl # NULL THEN Keep(acc, cleanedUrl) ELSE Skip(acc)
                  : cleanedUrl \in {parserRemoveParameters(trim(urls[i]))}}))

removeParameters(urls) == removeParametersFrom(urls, 1, Out(<<>>, 0))

\* `x ? x.toLowerCase() : null`
lowerOrNull(x) == IF x # NULL /\ x # <<>> THEN toLowerCase(x) ELSE NULL

getTLDKey(url) == lowerOrNull(getTLD(url))

getDomainKey(url) == lowerOrNull(getFullDomain(url))

\* getFullURLKey without its toLowerCase
getFullURLKeyAsSpelled(url) == IF ~isValid(url) THEN NULL ELSE url

getFullURLKey(url) == IF ~isValid(url) THEN NULL ELSE toLowerCase(url)

getDeduplicationKey(url, type) ==
    CASE type = "tld" -> getTLDKey(url)
      [] type = "domain" -> getDomainKey(url)
      [] OTHER -> getFullURLKey(url)

\* one turn of the loop of deduplicate, the key in hand
deduplicateEntry(trimmedUrl, comparisonKey, state) ==
    IF comparisonKey = NULL
    THEN [seen |-> state.seen, acc |-> Skip(state.acc)]
    ELSE IF comparisonKey \notin state.seen
    THEN [seen |-> state.seen \cup {comparisonKey},
          acc  |-> Keep(state.acc, trimmedUrl)]
    ELSE state

RECURSIVE deduplicateFrom(_, _, _, _)
deduplicateFrom(urls, type, i, state) ==
    IF i > Len(urls) THEN state.acc
    ELSE IF IsBlankEntry(urls[i])
    THEN deduplicateFrom(urls, type, i + 1,
             [seen |-> state.seen, acc |-> Skip(state.acc)])
    ELSE deduplicateFrom(urls, type, i + 1,
             deduplicateEntry(trim(urls[i]),
                              getDeduplicationKey(trim(urls[i]), type), state))

deduplicate(urls, type) ==
    deduplicateFrom(urls, type, 1, [seen |-> {}, acc |-> Out(<<>>, 0)])

\* the guard at the head of URLProcessor.filter
\* the check of filter without its `filterString.trim() === ''`
FilterStringUndefined(filterString) == filterString = undefined

FilterStringMissing(filterString) ==
    filterString = undefined \/ filterString = <<>> \/ trim(filterString) = <<>>

RECURSIVE filterFrom(_, _, _, _, _)
filterFrom(urls, filterType, searchString, i, acc) ==
    IF i > Len(urls) THEN acc
    ELSE IF IsBlankEntry(urls[i])
    THEN filterFrom(urls, filterType, searchString, i + 1, Skip(acc))
    ELSE filterFrom(urls, filterType, searchString, i + 1,
             The({IF \/ (filterType = "include" /\ containsString)
                     \/ (filterType = "exclude" /\ ~containsString)
                  THEN Keep(acc, trim(urls[i]))
                  ELSE acc
                  : containsString \in
                      {includes(toLowerCase(trim(urls[i])), searchString)}}))

\* defined when ~FilterStringMissing(filterString); the caller raises otherwise
filter(urls, filterType, filterString) ==
    filterFrom(urls, filterType, toLowerCase(filterString), 1, Out(<<>>, 0))

RECURSIVE keepTLDOnlyFrom(_, _, _)
keepTLDOnlyFrom(urls, i, acc) ==
    IF i > Len(urls) THEN acc
    ELSE IF IsBlankEntry(urls[i])
    THEN keepTLDOnlyFrom(urls, i + 1, Skip(acc))
    ELSE IF hasSubdomain(trim(urls[i]))
    THEN keepTLDOnlyFrom(urls, i + 1, acc)
    ELSE IF isValid(trim(urls[i]))
    THEN keepTLDOnlyFrom(urls, i + 1, Keep(acc, trim(urls[i])))
    ELSE keepTLDOnlyFrom(urls, i + 1, Skip(acc))

keepTLDOnly(urls) == keepTLDOnlyFrom(urls, 1, Out(<<>>, 0))

(***************************************************************************)
(* Outcome of a call that may raise: threw, with the message, or a value.  *)
(***************************************************************************)
Threw(msg, invalid) ==
    [threw |-> TRUE, error |-> msg, results |-> <<>>, invalidCount |-> invalid]

Returned(out) ==
    [threw |-> FALSE, error |-> "", results |-> out.results,
     invalidCount |-> out.invalidCount]

\* URLProcessor.processSync of js/url-processor.js: four operations
processSync(urls, operation, options) ==
    CASE operation = "removeParameters" -> Returned(removeParameters(urls))
      [] operation = "deduplicate" ->
            Returned(deduplicate(urls,
                IF options.type = "" THEN "full" ELSE options.type))
      [] operation = "filter" ->
            IF FilterStringMissing(options.filterString)
            THEN Threw("Filter string is required for filter operations", 0)
            ELSE Returned(filter(urls, options.type, options.filterString))
      [] operation = "keepTLDOnly" -> Returned(keepTLDOnly(urls))
      [] OTHER -> Threw("Unknown operation", 0)

(***************************************************************************)
(* PerformanceOptimizer (js/memory-manager.js): the per-URL result cache   *)
(* is a Map, modelled as the sequence of its entries in insertion order.   *)
(***************************************************************************)
cacheHas(cache, k) == \E i \in 1..Len(cache) : cache[i].key = k

cacheGet(cache, k) == cache[CHOOSE i \in 1..Len(cache) : cache[i].key = k].value

setCache(cache, k, v) ==
    LET afterEvict  == IF Len(cache) >= maxCacheSize THEN Tail(cache) ELSE cache
        afterDelete == SelectSeq(afterEvict, LAMBDA e : e.key # k)
    IN Append(afterDelete, [key |-> k, value |-> v])

\* keep the most recent 25% of maxCacheSize when more than 50% is used
performMemoryOptimization(cache) ==
    IF 2 * Len(cache) > maxCacheSize
    THEN LET keepCount == maxCacheSize \div 4
             from      == IF Len(cache) - keepCount > 0
                          THEN Len(cache) - keepCount ELSE 0
         IN SubSeq(cache, from + 1, Len(cache))
    ELSE cache

generateCacheKey(options) ==
    <<options.operation, options.type,
      IF options.filterString = undefined THEN <<>> ELSE options.filterString>>

urlCacheKey(options, url) == <<generateCacheKey(options), url>>

\* Array.prototype.indexOf, 1-based; 0 when absent
indexOf(seq, x) ==
    IF \E i \in 1..Len(seq) : seq[i] = x
    THEN CHOOSE i \in 1..Len(seq) :
            seq[i] = x /\ \A j \in 1..(i - 1) : seq[j] # x
    ELSE 0

\* the processing function handed to processBatches: "process" is
\* URLManager.processInChunks' (a ProcessingResult), "processSync" is
\* URLProcessor.process' own (a bare array or an exception)
RECURSIVE ProcessingFunction(_, _, _)

RECURSIVE cacheNewResults(_, _, _, _, _)
cacheNewResults(cache, options, uncachedUrls, results, i) ==
    IF i > Len(uncachedUrls) THEN cache
    ELSE IF i <= Len(results)
    THEN cacheNewResults(
             setCache(cache, urlCacheKey(options, uncachedUrls[i]), results[i]),
             options, uncachedUrls, results, i + 1)
    ELSE cacheNewResults(cache, options, uncachedUrls, results, i + 1)

RECURSIVE combineResults(_, _, _, _, _, _)
combineResults(urls, options, cache, uncachedUrls, results, i) ==
    IF i > Len(urls) THEN <<>>
    ELSE
        LET url   == urls[i]
            rest  == combineResults(urls, options, cache, uncachedUrls, results, i + 1)
            index == indexOf(uncachedUrls, url)
        IN
        IF cacheHas(cache, urlCacheKey(options, url))
        THEN <<cacheGet(cache, urlCacheKey(options, url))>> \o rest
        ELSE IF index >= 1 /\ index <= Len(results)
        THEN <<results[index]>> \o rest
        ELSE rest

\* `{ results: [], success: true }`, the value when nothing is uncached
NothingProcessed ==
    [threw |-> FALSE, error |-> "", success |-> TRUE,
     hasResults |-> TRUE, results |-> <<>>, invalidCount |-> 0]

\* `side` counts the increments the processing function made to the
\* processor's this.stats.invalidCount while it ran
CacheOutcome(threw, error, success, results, side, cache) ==
    [threw |-> threw, error |-> error, success |-> success,
     results |-> results, outputCount |-> Len(results), side |-> side,
     cache |-> cache]

\* processWithCache from the call of the processing function on
cacheAndCombine(urls, options, cache, uncachedUrls, processedResults) ==
    IF processedResults.threw
    THEN CacheOutcome(TRUE, processedResults.error, FALSE, <<>>,
                      processedResults.invalidCount, cache)
    ELSE IF ~processedResults.hasResults
    THEN \* processedResults.results is undefined: reading [index] raises
         CacheOutcome(TRUE, "TypeError", FALSE, <<>>,
                      processedResults.invalidCount, cache)
    ELSE CacheOutcome(FALSE, "", processedResults.success,
             combineResults(urls, options, cache, uncachedUrls,
                            processedResults.results, 1),
             processedResults.invalidCount,
             IF processedResults.success
             THEN cacheNewResults(cache, options, uncachedUrls,
                                  processedResults.results, 1)
             ELSE cache)

processWithCache(urls, pf, options, cache) ==
    The({cacheAndCombine(urls, options, cache, uncachedUrls,
             IF uncachedUrls # <<>>
             THEN ProcessingFunction(pf, uncachedUrls, options)
             ELSE NothingProcessed)
         : uncachedUrls \in
             {SelectSeq(urls, LAMBDA u : ~cacheHas(cache, urlCacheKey(options, u)))}})

\* Math.ceil(totalUrls / batchSize)
Ceil(a, b) == (a + b - 1) \div b

Min(a, b) == IF a < b THEN a ELSE b

\* a slice that runs one entry into the next batch
batchSliceOverlapping(urls, size, batchIndex) ==
    SubSeq(urls, batchIndex * size + 1,
           Min(batchIndex * size + size + 1, Len(urls)))

\* urls.slice(startIdx, endIdx) of batch batchIndex (0-based)
batchSlice(urls, size, batchIndex) ==
    SubSeq(urls, batchIndex * size + 1, Min(batchIndex * size + size, Len(urls)))

\* Math.round((processed / total) * 100)
percentage(processed, total) == (200 * processed + total) \div (2 * total)

\* a progress record that counts the entries of its own batch only
ProgressOfBatch(run, endIdx) ==
    [batchIndex   |-> run.batchIndex + 1,
     totalBatches |-> Ceil(Len(run.urls), run.batchSize),
     processed    |-> endIdx - run.batchIndex * run.batchSize,
     total        |-> Len(run.urls),
     percentage   |-> percentage(endIdx - run.batchIndex * run.batchSize,
                                 Len(run.urls))]

\* the progress record of the batch that ends at endIdx
Progress(run, endIdx) ==
    [batchIndex   |-> run.batchIndex + 1,
     totalBatches |-> Ceil(Len(run.urls), run.batchSize),
     processed    |-> endIdx,
     total        |-> Len(run.urls),
     percentage   |-> percentage(endIdx, Len(run.urls))]

\* the loop body of processBatches after processWithCache has returned
accumulate(run, batchResult) ==
    IF batchResult.threw
    THEN [run EXCEPT !.threw = TRUE, !.error = batchResult.error,
                     !.side = run.side + batchResult.side,
                     !.cache = batchResult.cache]
    ELSE [run EXCEPT
            !.results      = IF batchResult.success
                             THEN run.results \o batchResult.results
                             ELSE run.results,
            !.outputCount  = IF batchResult.success
                             THEN run.outputCount + batchResult.outputCount
                             ELSE run.outputCount,
            !.invalidCount = IF batchResult.success
                             THEN run.invalidCount
                                  + Len(batchSlice(run.urls, run.batchSize,
                                                   run.batchIndex))
                                  - batchResult.outputCount
                             ELSE run.invalidCount,
            !.side         = run.side + batchResult.side,
            !.cache        = batchResult.cache,
            !.progress     = Append(run.progress,
                                Progress(run, Min((run.batchIndex + 1) * run.batchSize,
                                                  Len(run.urls)))),
            !.batchIndex   = run.batchIndex + 1]

\* one iteration of the loop of PerformanceOptimizer.processBatches
batchIteration(run, pressure) ==
    accumulate(run,
        processWithCache(batchSlice(run.urls, run.batchSize, run.batchIndex),
                         run.pf, run.options,
                         IF pressure THEN performMemoryOptimization(run.cache)
                         ELSE run.cache))

\* the locals of processBatches before the first iteration
batchesStart(urls, pf, options, size, cache) ==
    [urls |-> urls, pf |-> pf, options |-> options, batchSize |-> size,
     batchIndex |-> 0, results |-> <<>>, outputCount |-> 0, invalidCount |-> 0,
     side |-> 0, cache |-> cache, progress |-> <<>>,
     threw |-> FALSE, error |-> ""]

batchesDone(run) ==
    run.threw \/ run.batchIndex >= Ceil(Len(run.urls), run.batchSize)

\* the whole loop, without memory pressure
RECURSIVE batchesLoop(_)
batchesLoop(run) ==
    IF batchesDone(run) THEN run ELSE batchesLoop(batchIteration(run, FALSE))

\* the value processBatches returns (or the exception it rejects with)
batchesReturn(run) ==
    [threw |-> run.threw, error |-> run.error, success |-> ~run.threw,
     results |-> IF run.threw THEN <<>> ELSE run.results,
     stats |-> [inputCount   |-> Len(run.urls),
                outputCount  |-> run.outputCount,
                removedCount |-> Len(run.urls) - run.outputCount,
                invalidCount |-> run.invalidCount]]

(***************************************************************************)
(* URLProcessor.process (js/url-processor.js).  The `urls` argument is any *)
(* JavaScript value: an array, null, or a string.                          *)
(***************************************************************************)
Arr(items) == [kind |-> "array", length |-> Len(items), items |-> items]

NullArg == [kind |-> "null", length |-> 0, items |-> <<>>]

\* the test suite's 'not-an-array'
StringArg == [kind |-> "string", length |-> 12, items |-> <<>>]

\* PerformanceOptimizer.batchSize (memory-manager.js:507, 1000), scaled
batchSize == 2

createProcessingResult(success, results, errors, stats) ==
    [success      |-> success,
     inputCount   |-> stats.inputCount,
     outputCount  |-> stats.outputCount,
     removedCount |-> stats.removedCount,
     invalidCount |-> stats.invalidCount,
     results      |-> results,
     errors       |-> errors]

resetStats ==
    [inputCount |-> 0, outputCount |-> 0, removedCount |-> 0, invalidCount |-> 0]

\* the `catch` of process: the counters are whatever the body left in this.stats
processFailed(stats, msg) == createProcessingResult(FALSE, <<>>, <<msg>>, stats)

\* the end of process once the operation has returned or raised
\* (js/url-processor.js 83-95; the standalone worker's 278-290)
processEnd(stats, r) ==
    IF r.threw
    THEN processFailed([stats EXCEPT !.invalidCount = @ + r.invalidCount], r.error)
    ELSE createProcessingResult(TRUE, r.results, <<>>,
             [stats EXCEPT !.invalidCount = @ + r.invalidCount,
                           !.outputCount  = Len(r.results),
                           !.removedCount = stats.inputCount - Len(r.results)])

\* the end of process on its large-dataset path (lines 59-82)
processOptimizedEnd(urls, operation, options, stats, run) ==
    IF run.threw
    THEN processFailed([stats EXCEPT !.invalidCount = @ + run.side], run.error)
    ELSE createProcessingResult(TRUE, run.results, <<>>,
             [stats EXCEPT
                !.outputCount  = run.outputCount,
                !.invalidCount = run.invalidCount,
                !.removedCount = stats.inputCount - run.outputCount])

\* hasOptimizer: a PerformanceOptimizer class was loaded when the processor
\* was constructed (main thread: yes; worker: no).  The processor's own
\* optimizer starts with an empty cache.
process(urls, operation, options, hasOptimizer) ==
    IF urls.kind = "null"
    THEN processFailed(resetStats, "TypeError")
    ELSE IF urls.kind # "array"
    THEN processFailed([resetStats EXCEPT !.inputCount = urls.length],
                       "URLs must be provided as an array")
    ELSE IF operation = ""
    THEN processFailed([resetStats EXCEPT !.inputCount = urls.length],
                       "Operation type must be specified")
    ELSE IF hasOptimizer /\ urls.length > LARGE_DATASET
    THEN processOptimizedEnd(urls, operation, options,
             [resetStats EXCEPT !.inputCount = urls.length],
             batchesLoop(batchesStart(urls.items, "processSync",
                 [options EXCEPT !.operation = operation], batchSize, <<>>)))
    ELSE processEnd([resetStats EXCEPT !.inputCount = urls.length],
                    processSync(urls.items, operation, options))

\* the value a processing function hands to processWithCache
Processed(threw, error, success, hasResults, results, invalidCount) ==
    [threw |-> threw, error |-> error, success |-> success,
     hasResults |-> hasResults, results |-> results,
     invalidCount |-> invalidCount]

ProcessingFunction(pf, urls, options) ==
    IF pf = "processSync"
    THEN The({Processed(r.threw, r.error, FALSE, FALSE, <<>>, r.invalidCount)
              : r \in {processSync(urls, options.operation, options)}})
    ELSE The({Processed(FALSE, "", r.success, TRUE, r.results, 0)
              : r \in {process(Arr(urls), options.operation, options, TRUE)}})

(***************************************************************************)
(* The standalone worker's URLProcessor (url-worker-standalone.js): the    *)
(* four operations above and five more.                                    *)
(***************************************************************************)
\* String.prototype.lastIndexOf for a one-token needle, 1-based; 0 if absent
RECURSIVE lastIndexOfFrom(_, _, _)
lastIndexOfFrom(s, tok, i) ==
    IF i < 1 THEN 0
    ELSE IF s[i] = tok THEN i
    ELSE lastIndexOfFrom(s, tok, i - 1)

lastIndexOf(s, tok) == lastIndexOfFrom(s, tok, Len(s))

\* the path written back by trimLastPath
trimmedPath(pathname) ==
    LET path == IF pathname # <<>> /\ pathname[Len(pathname)] = "/"
                THEN SubSeq(pathname, 1, Len(pathname) - 1)
                ELSE pathname
        lastSlashIndex == lastIndexOf(path, "/")
    IN
    IF lastSlashIndex > 1 THEN SubSeq(path, 1, lastSlashIndex - 1)
    ELSE IF lastSlashIndex = 1 THEN <<"/">>
    ELSE path

\* `urlObj.pathname = path; urlObj.toString()`: an empty path is set as "/"
withPath(urlObj, path) ==
    Href([urlObj EXCEPT !.pathname = IF path = <<>> THEN <<"/">> ELSE path])

RECURSIVE trimLastPathFrom(_, _, _)
trimLastPathFrom(urls, i, acc) ==
    IF i > Len(urls) THEN acc
    ELSE IF IsBlankEntry(urls[i])
    THEN trimLastPathFrom(urls, i + 1, Skip(acc))
    ELSE IF ~isValid(trim(urls[i]))
    THEN trimLastPathFrom(urls, i + 1, Skip(acc))
    ELSE trimLastPathFrom(urls, i + 1,
             The({IF urlObj.ok
                  THEN Keep(acc, withPath(urlObj, trimmedPath(urlObj.pathname)))
                  ELSE Skip(acc)
                  : urlObj \in {NewURL(trim(urls[i]))}}))

trimLastPath(urls) == trimLastPathFrom(urls, 1, Out(<<>>, 0))

\* one turn of the loop of extractTLD, the parse in hand
extractTLDEntry(parsed, state) ==
    IF ~parsed.valid
    THEN [seen |-> state.seen, acc |-> Skip(state.acc)]
    ELSE IF parsed.domain # <<>> /\ parsed.tld # <<>>
    THEN IF (parsed.domain \o <<".">> \o parsed.tld) \notin state.seen
         THEN [seen |-> state.seen \cup {parsed.domain \o <<".">> \o parsed.tld},
               acc  |-> Keep(state.acc, parsed.domain \o <<".">> \o parsed.tld)]
         ELSE state
    ELSE [seen |-> state.seen, acc |-> Skip(state.acc)]

RECURSIVE extractTLDFrom(_, _, _)
extractTLDFrom(urls, i, state) ==
    IF i > Len(urls) THEN state.acc
    ELSE IF IsBlankEntry(urls[i])
    THEN extractTLDFrom(urls, i + 1,
             [seen |-> state.seen, acc |-> Skip(state.acc)])
    ELSE extractTLDFrom(urls, i + 1,
             extractTLDEntry(parse(trim(urls[i])), state))

extractTLD(urls) == extractTLDFrom(urls, 1, [seen |-> {}, acc |-> Out(<<>>, 0)])

\* collation order of the tokens that occur in sort keys
TokenOrder ==
    <<".", "a", "b", "com", "invalid", "localhost", "org", "p", "q", "www">>

TokRank(t) == indexOf(TokenOrder, t)

\* String.prototype.localeCompare: negative, zero or positive
RECURSIVE localeCompare(_, _)
localeCompare(a, b) ==
    IF a = <<>> /\ b = <<>> THEN 0
    ELSE IF a = <<>> THEN -1
    ELSE IF b = <<>> THEN 1
    ELSE IF TokRank(Head(a)) # TokRank(Head(b))
    THEN TokRank(Head(a)) - TokRank(Head(b))
    ELSE localeCompare(Tail(a), Tail(b))

RECURSIVE strLength(_)
strLength(s) == IF s = <<>> THEN 0 ELSE Len(Head(s)) + strLength(Tail(s))

\* the comparator handed to Array.prototype.sort
compareBy(kind, x, y) ==
    IF kind = "length" THEN x.key - y.key ELSE localeCompare(x.key, y.key)

\* a sort that puts an item in front of the items it compares equal to
RECURSIVE insertBeforeEquals(_, _, _)
insertBeforeEquals(sorted, item, kind) ==
    IF sorted = <<>> THEN <<item>>
    ELSE IF compareBy(kind, Head(sorted), item) >= 0
    THEN <<item>> \o sorted
    ELSE <<Head(sorted)>> \o insertBeforeEquals(Tail(sorted), item, kind)

\* Array.prototype.sort is stable: an item goes behind every item that
\* does not compare greater
RECURSIVE insertSorted(_, _, _)
insertSorted(sorted, item, kind) ==
    IF sorted = <<>> THEN <<item>>
    ELSE IF compareBy(kind, Head(sorted), item) > 0
    THEN <<item>> \o sorted
    ELSE <<Head(sorted)>> \o insertSorted(Tail(sorted), item, kind)

RECURSIVE sortItems(_, _, _)
sortItems(items, kind, sorted) ==
    IF items = <<>> THEN sorted
    ELSE sortItems(Tail(items), kind, insertSorted(sorted, Head(items), kind))

\* `filename.substring(0, lastDotIndex)` when lastDotIndex > 0
stem(filename) ==
    IF lastIndexOf(filename, ".") > 1
    THEN SubSeq(filename, 1, lastIndexOf(filename, ".") - 1)
    ELSE filename

\* the filename sortByFilename settles on, from the segments of the path
filenameOf(pathSegments, hostname) ==
    IF stem(pathSegments[Len(pathSegments)]) # <<>>
    THEN stem(pathSegments[Len(pathSegments)])
    ELSE IF Len(pathSegments) > 1 /\ pathSegments[Len(pathSegments) - 1] # <<>>
    THEN pathSegments[Len(pathSegments) - 1]
    ELSE hostname

\* the key of a parsed valid entry under the three sort operations
sortKey(kind, trimmedUrl, parsed) ==
    CASE kind = "domain" -> toLowerCase(parsed.hostname)
      [] kind = "length" -> strLength(trimmedUrl)
      [] OTHER ->
            toLowerCase(filenameOf(
                split(IF parsed.path = <<>> THEN <<"/">> ELSE parsed.path, "/"),
                parsed.hostname))

collectEntry(kind, trimmedUrl, parsed, acc) ==
    IF ~parsed.valid THEN Skip(acc)
    ELSE Keep(acc, [original |-> trimmedUrl,
                    key      |-> sortKey(kind, trimmedUrl, parsed)])

RECURSIVE collectValid(_, _, _, _)
collectValid(urls, kind, i, acc) ==
    IF i > Len(urls) THEN acc
    ELSE IF IsBlankEntry(urls[i])
    THEN collectValid(urls, kind, i + 1, Skip(acc))
    ELSE collectValid(urls, kind, i + 1,
             collectEntry(kind, trim(urls[i]), parse(trim(urls[i])), acc))

\* `validUrls.sort(...)` and the map back to the original strings
sorted(valid, kind) ==
    Out([i \in 1..Len(valid.results) |->
            sortItems(valid.results, kind, <<>>)[i].original],
        valid.invalidCount)

sortBy(urls, kind) == sorted(collectValid(urls, kind, 1, Out(<<>>, 0)), kind)

sortByDomain(urls) == sortBy(urls, "domain")

sortByLength(urls) == sortBy(urls, "length")

sortByFilename(urls) == sortBy(urls, "filename")

\* the switch of the standalone worker's URLProcessor.process
workerProcessSync(urls, operation, options) ==
    CASE operation = "trimLastPath" -> Returned(trimLastPath(urls))
      [] operation = "extractTLD" -> Returned(extractTLD(urls))
      [] operation = "sortByDomain" -> Returned(sortByDomain(urls))
      [] operation = "sortByLength" -> Returned(sortByLength(urls))
      [] operation = "sortByFilename" -> Returned(sortByFilename(urls))
      [] OTHER -> processSync(urls, operation, options)

\* URLProcessor.process of the standalone worker (synchronous, no optimizer)
workerProcess(urls, operation, options) ==
    IF urls.kind = "null"
    THEN processFailed(resetStats, "TypeError")
    ELSE IF urls.kind # "array"
    THEN processFailed([resetStats EXCEPT !.inputCount = urls.length],
                       "URLs must be provided as an array")
    ELSE IF operation = ""
    THEN processFailed([resetStats EXCEPT !.inputCount = urls.length],
                       "Operation type must be specified")
    ELSE processEnd([resetStats EXCEPT !.inputCount = urls.length],
                    workerProcessSync(urls.items, operation, options))

(***************************************************************************)
(* The worker scripts (url-worker-standalone.js, js/url-worker.js): the    *)
(* messages one request makes the worker post.                             *)
(***************************************************************************)
WorkerScripts == {"standalone", "modular"}

Message(id, type) ==
    [id |-> id, type |-> type, success |-> FALSE, results |-> <<>>,
     errors |-> <<>>, error |-> "", processed |-> 0, total |-> 0,
     percentage |-> 0, stats |-> resetStats]

\* what `processor.process(...)` evaluates to inside the worker.  The
\* standalone script carries its own synchronous processor; the modular
\* script imports js/url-processor.js, whose process is async, so the value
\* is a Promise and every property read from it is undefined.
workerEngine(script, batchUrls, operation, options) ==
    IF script = "standalone"
    THEN workerProcess(Arr(batchUrls), operation, options)
    ELSE createProcessingResult(FALSE, <<>>, <<>>, resetStats)

\* the `complete` message of processBatches
batchesComplete(req, acc) ==
    [Message(req.id, "complete") EXCEPT
       !.success = TRUE,
       !.results = acc.results,
       !.stats   = [inputCount   |-> req.urls.length,
                    outputCount  |-> acc.outputCount,
                    removedCount |-> req.urls.length - acc.outputCount,
                    invalidCount |-> acc.invalidCount]]

\* the loop body of the worker's processBatches after process has returned;
\* tick tells whether PROGRESS_INTERVAL had elapsed
workerAccumulate(req, acc, batchLen, batchResult, tick) ==
    [results      |-> IF batchResult.success
                      THEN acc.results \o batchResult.results
                      ELSE acc.results,
     outputCount  |-> IF batchResult.success
                      THEN acc.outputCount + batchResult.outputCount
                      ELSE acc.outputCount,
     invalidCount |-> IF batchResult.success
                      THEN acc.invalidCount + batchResult.invalidCount
                      ELSE acc.invalidCount,
     processed    |-> acc.processed + batchLen,
     posts        |-> IF tick
                      THEN Append(acc.posts,
                               [Message(req.id, "progress") EXCEPT
                                  !.processed  = acc.processed + batchLen,
                                  !.total      = req.urls.length,
                                  !.percentage =
                                      percentage(acc.processed + batchLen,
                                                 req.urls.length)])
                      ELSE acc.posts]

\* the loop of the worker's processBatches from batch batchIndex (0-based)
RECURSIVE workerBatchesFrom(_, _, _, _, _)
workerBatchesFrom(script, req, ticks, batchIndex, acc) ==
    IF batchIndex >= Ceil(req.urls.length, BATCH_SIZE)
    THEN Append(acc.posts, batchesComplete(req, acc))
    ELSE workerBatchesFrom(script, req, ticks, batchIndex + 1,
             workerAccumulate(req, acc,
                 Len(batchSlice(req.urls.items, BATCH_SIZE, batchIndex)),
                 workerEngine(script,
                     batchSlice(req.urls.items, BATCH_SIZE, batchIndex),
                     req.operation, req.options),
                 ticks[batchIndex + 1]))

workerProcessBatches(script, req, ticks) ==
    workerBatchesFrom(script, req, ticks, 0,
        [results |-> <<>>, outputCount |-> 0, invalidCount |-> 0,
         processed |-> 0, posts |-> <<>>])

\* the `complete` message of processSingleBatch
singleComplete(req, result) ==
    [Message(req.id, "complete") EXCEPT
       !.success = result.success,
       !.results = result.results,
       !.errors  = result.errors,
       !.stats   = [inputCount   |-> result.inputCount,
                    outputCount  |-> result.outputCount,
                    removedCount |-> result.removedCount,
                    invalidCount |-> result.invalidCount]]

workerProcessSingleBatch(script, req) ==
    <<singleComplete(req,
          workerEngine(script, req.urls.items, req.operation, req.options))>>

processURLsWithProgress(script, req, ticks) ==
    <<[Message(req.id, "start") EXCEPT !.total = req.urls.length]>>
    \o (IF req.urls.length > BATCH_SIZE
        THEN workerProcessBatches(script, req, ticks)
        ELSE workerProcessSingleBatch(script, req))

\* self.onmessage with the input check outside the try block's control flow:
\* the error is posted and the request is processed all the same
onmessageFallingThrough(script, req, ticks) ==
    IF req.operation = "" \/ req.urls.kind # "array"
    THEN <<[Message(req.id, "error") EXCEPT
              !.error = "Invalid input: operation and urls array are required"]>>
         \o processURLsWithProgress(script, req, ticks)
    ELSE processURLsWithProgress(script, req, ticks)

\* self.onmessage: everything the handler posts for one request, in order
onmessage(script, req, ticks) ==
    IF req.operation = "" \/ req.urls.kind # "array"
    THEN <<[Message(req.id, "error") EXCEPT
              !.error = "Invalid input: operation and urls array are required"]>>
    ELSE processURLsWithProgress(script, req, ticks)

\* the progress-interval outcomes for a request of n URLs
Ticks(n) == [1..Ceil(n, BATCH_SIZE) -> BOOLEAN]

\* those of a worker that is always slow or always fast
SteadyTicks(n) == {[i \in 1..Ceil(n, BATCH_SIZE) |-> b] : b \in BOOLEAN}

(***************************************************************************)
(* Inputs.  A small pool of entries that exercises every comparison made   *)
(* by the operations: a case variant, a shared host with a different path  *)
(* and a query, a scheme-less padded entry on another host of the same     *)
(* TLD, and an entry the parser rejects.                                   *)
(***************************************************************************)
UrlPool ==
    {<<"https", "://", "a", ".", "com">>,
     <<"https", "://", "A", ".", "com">>,
     <<"https", "://", "a", ".", "com", "/", "p", "?", "q">>,
     <<" ", "www", ".", "b", ".", "com", "/", "p">>,
     <<"://", "invalid">>}

RECURSIVE SeqsUpTo(_, _)
SeqsUpTo(S, n) ==
    IF n = 0 THEN {<<>>}
    ELSE LET shorter == SeqsUpTo(S, n - 1) IN
         shorter \cup {Append(q, x) : q \in {r \in shorter : Len(r) = n - 1}, x \in S}

UrlLists == SeqsUpTo(UrlPool, MaxLen)

Option(operation, type, filterString) ==
    [operation |-> operation, type |-> type, filterString |-> filterString]

\* the operations of the main-thread engine, the five only the standalone
\* worker knows, and a missing operation
OptionSet ==
    {Option("removeParameters", "", undefined), Option("keepTLDOnly", "", undefined)}
    \cup {Option("deduplicate", t, undefined) : t \in {"tld", "domain", "full", ""}}
    \cup {Option("filter", "include", f) : f \in {undefined, <<>>, <<" ">>, <<"b">>}}
    \cup {Option("filter", "exclude", <<"b">>)}
    \cup {Option(o, "", undefined) :
            o \in {"trimLastPath", "extractTLD", "sortByDomain", "sortByLength",
                   "sortByFilename", ""}}

(***************************************************************************)
(* State.                                                                  *)
(***************************************************************************)
VARIABLES
    \* the operation engine and the batch schedulers
    urls,       \* the `urls` argument of the call under study
    options,    \* its operation and options
    pc,         \* "idle", "batching" (inside processBatches), "done"
    entry,      \* which entry point was called
    run,        \* the locals of PerformanceOptimizer.processBatches
    outcome,    \* what the call returned, or the worker posted
    \* WorkerManager (js/worker-manager.js)
    worker,             \* 0 for null, n for the n-th Worker constructed
    isReady,
    pendingRequests,    \* the keys of the pendingRequests map
    requestIdCounter,
    callbacks,          \* whether setupWorkerCallbacks has set the callbacks
    promises,           \* the promise of each accepted processURLs call
    \* the Worker objects constructed so far, with the promise and the timer
    \* of the initialize() call that constructed each
    threads,
    \* URLManager (js/text-area-manager.js)
    useWorker,
    isProcessing,
    processingTimeout,  \* whether the processing timer is armed
    runs,               \* the processURLs calls that passed startProcessing
    output,             \* whose results the output area shows
    timedOut,           \* requests pending when their run was timed out
    \* PerformanceOptimizer (js/memory-manager.js), its cache under study
    optimizerCache,     \* this.cache, the entries in insertion order
    cacheUses,          \* the cached keys, the least recently read or written first
    \* TextAreaManager (js/text-area-manager.js) and the control panel
    inputValue,         \* inputElement.value, the text of the input area
    processAll          \* the "Process All Text" checkbox

engineVars == <<urls, options, pc, entry, run, outcome>>

channelVars ==
    <<worker, isReady, pendingRequests, requestIdCounter, callbacks, promises,
      threads, useWorker, isProcessing, processingTimeout, runs, output,
      timedOut>>

cacheVars == <<optimizerCache, cacheUses>>

inputVars == <<inputValue, processAll>>

vars == <<engineVars, channelVars, cacheVars, inputVars>>

\* WorkerManager and URLManager as their constructors leave them, in a
\* browser that has Worker
Managers ==
    /\ worker = 0
    /\ isReady = FALSE
    /\ pendingRequests = {}
    /\ requestIdCounter = 0
    /\ callbacks = FALSE
    /\ promises = <<>>
    /\ threads = <<>>
    /\ useWorker = TRUE
    /\ isProcessing = FALSE
    /\ processingTimeout = FALSE
    /\ runs = <<>>
    /\ output = <<>>
    /\ timedOut = {}
    /\ optimizerCache = <<>>
    /\ cacheUses = <<>>

\* the page as loaded: the managers constructed, the input area empty and
\* the checkbox clear
Constructed ==
    /\ Managers
    /\ inputValue = <<>>
    /\ processAll = FALSE

NoRun == batchesStart(<<>>, "process", Option("", "", undefined), 1, <<>>)

Outcome(success, results, errors, stats, posts) ==
    [success |-> success, results |-> results, errors |-> errors,
     stats |-> stats, posts |-> posts]

NoOutcome == Outcome(FALSE, <<>>, <<>>, resetStats, <<>>)

\* a ProcessingResult as the outcome
Returns(r) ==
    Outcome(r.success, r.results, r.errors,
            [inputCount   |-> r.inputCount,
             outputCount  |-> r.outputCount,
             removedCount |-> r.removedCount,
             invalidCount |-> r.invalidCount], <<>>)

\* the worker's posts as the outcome: the terminal message read as the
\* main thread reads it
Posted(posts) ==
    Outcome(posts[Len(posts)].success, posts[Len(posts)].results,
            IF posts[Len(posts)].type = "error"
            THEN <<posts[Len(posts)].error>>
            ELSE posts[Len(posts)].errors,
            posts[Len(posts)].stats, posts)

Init ==
    /\ urls \in {Arr(l) : l \in UrlLists} \cup {NullArg, StringArg}
    /\ options \in OptionSet
    /\ pc = "idle"
    /\ entry = "none"
    /\ run = NoRun
    /\ outcome = NoOutcome
    /\ Constructed

\* URLProcessor.process called directly, with or without a
\* PerformanceOptimizer class loaded
CallProcess ==
    /\ pc = "idle"
    /\ \E hasOptimizer \in BOOLEAN :
        /\ outcome' = Returns(process(urls, options.operation, options,
                                      hasOptimizer))
        /\ entry' = IF hasOptimizer THEN "processOptimized" ELSE "process"
    /\ pc' = "done"
    /\ UNCHANGED <<urls, options, run>>
    /\ UNCHANGED <<channelVars, cacheVars, inputVars>>

\* URLProcessor.process of the standalone worker script called directly
CallWorkerProcess ==
    /\ pc = "idle"
    /\ outcome' = Returns(workerProcess(urls, options.operation, options))
    /\ entry' = "workerProcess"
    /\ pc' = "done"
    /\ UNCHANGED <<urls, options, run>>
    /\ UNCHANGED <<channelVars, cacheVars, inputVars>>

\* PerformanceOptimizer.processBatches entered with URLProcessor.process as
\* the processing function, as URLManager.processInChunks does
StartBatches ==
    /\ pc = "idle"
    /\ urls.kind = "array"
    /\ \E size \in 1..MaxLen :
        run' = batchesStart(urls.items, "process", options, size, <<>>)
    /\ pc' = "batching"
    /\ entry' = "processBatches"
    /\ UNCHANGED <<urls, options, outcome>>
    /\ UNCHANGED <<channelVars, cacheVars, inputVars>>

\* one iteration of its loop; the memory reading is the environment's
BatchStep ==
    /\ pc = "batching"
    /\ ~batchesDone(run)
    /\ \E pressure \in BOOLEAN : run' = batchIteration(run, pressure)
    /\ UNCHANGED <<urls, options, pc, entry, outcome>>
    /\ UNCHANGED <<channelVars, cacheVars, inputVars>>

\* its return
FinishBatches ==
    /\ pc = "batching"
    /\ batchesDone(run)
    /\ outcome' = Outcome(~run.threw, batchesReturn(run).results,
                          IF run.threw THEN <<run.error>> ELSE <<>>,
                          batchesReturn(run).stats, <<>>)
    /\ pc' = "done"
    /\ UNCHANGED <<urls, options, entry, run>>
    /\ UNCHANGED <<channelVars, cacheVars, inputVars>>

\* one request handled by a worker script, start to terminal message
WorkerRequest ==
    /\ pc = "idle"
    /\ \E script \in WorkerScripts :
       \E ticks \in Ticks(urls.length) :
        /\ outcome' = Posted(onmessage(script,
                                 [id |-> 1, operation |-> options.operation,
                                  urls |-> urls, options |-> options], ticks))
        /\ entry' = script
    /\ pc' = "done"
    /\ UNCHANGED <<urls, options, run>>
    /\ UNCHANGED <<channelVars, cacheVars, inputVars>>

Next ==
    \/ CallProcess
    \/ CallWorkerProcess
    \/ StartBatches
    \/ BatchStep
    \/ FinishBatches
    \/ WorkerRequest

Spec == Init /\ [][Next]_vars

(***************************************************************************)
(* Properties of the operation engine and the batch schedulers.            *)
(***************************************************************************)
Done(entries) == pc = "done" /\ entry \in entries

\* the operations of the main-thread engine / of the standalone worker's
EngineOperations == {"removeParameters", "deduplicate", "filter", "keepTLDOnly"}

WorkerOperations ==
    EngineOperations \cup {"trimLastPath", "extractTLD", "sortByDomain",
                           "sortByLength", "sortByFilename"}

\* a request no chunk of which the engine can serve
RequestLevelError(known) ==
    \/ /\ options.operation = "filter"
       /\ \/ options.filterString = undefined
          \/ \A i \in 1..Len(options.filterString) : options.filterString[i] = WS
    \/ options.operation # "" /\ options.operation \notin known

\* C1: the in-process batch scheduler, driving URLProcessor.process per
\* chunk, returns for every chunk size the `results` it returns when one
\* chunk covers the whole input.
C1_ChunkingTransparent ==
    Done({"processBatches"}) /\ urls.length > 0 =>
        outcome.results =
            batchesLoop(batchesStart(urls.items, "process", options,
                                     urls.length, <<>>)).results

\* C2: for an input of more than BATCH_SIZE URLs the `results` of the
\* worker's `complete` message are those of one URLProcessor.process call
\* over the whole input.
C2_WorkerChunkingTransparent ==
    Done(WorkerScripts) /\ urls.kind = "array" /\ urls.length > BATCH_SIZE
    /\ options.operation # "" =>
        outcome.results = workerProcess(urls, options.operation, options).results

\* the comparison key the specification gives each subtype, NULL for an entry that
\* has none
C3_Key(type, parsed) ==
    IF ~parsed.valid THEN NULL
    ELSE CASE type = "tld" ->
                IF parsed.tld = <<>> THEN NULL ELSE toLowerCase(parsed.tld)
           [] type = "domain" -> toLowerCase(parsed.hostname)
           [] OTHER -> toLowerCase(parsed.original)

C3_Keys(type, items) ==
    [i \in 1..Len(items) |-> C3_Key(type, parse(trim(items[i])))]

\* the indices, ascending, of the entries that are the first with their key
C3_Firsts(keys) ==
    SelectSeq([i \in 1..Len(keys) |-> i],
              LAMBDA i : keys[i] # NULL /\ \A j \in 1..(i - 1) : keys[j] # keys[i])

C3_FirstOccurrences(items, firsts) ==
    [n \in 1..Len(firsts) |-> trim(items[firsts[n]])]

\* C3: deduplicate keeps, for each comparison key, exactly the entry of
\* smallest index that has it, in input order and as it was spelled, so no
\* two output entries share a key.
C3_DedupCorrect ==
    Done({"process", "processOptimized"}) /\ options.operation = "deduplicate"
    /\ outcome.success =>
        /\ outcome.results =
              C3_FirstOccurrences(urls.items,
                  C3_Firsts(C3_Keys(IF options.type = "" THEN "full"
                                    ELSE options.type, urls.items)))
        /\ \A i, j \in 1..Len(outcome.results) :
              i < j =>
                 C3_Key(options.type, parse(outcome.results[i]))
                 # C3_Key(options.type, parse(outcome.results[j]))

\* three entries on two hosts deduplicated by host: two are kept
C3_Witness ==
    /\ Done({"process"})
    /\ options.operation = "deduplicate" /\ options.type = "domain"
    /\ urls.length = 3
    /\ Len(outcome.results) = 2

\* C4: when the engine fails the first chunk with a request-level error the
\* scheduler's outcome is success = false with that error, in process and
\* in the worker.
C4_StopOnError ==
    /\ Done({"processBatches"}) /\ urls.length > 0
       /\ RequestLevelError(EngineOperations) =>
          ~outcome.success /\ outcome.errors # <<>>
    /\ Done({"standalone"}) /\ urls.kind = "array" /\ urls.length > BATCH_SIZE
       /\ RequestLevelError(WorkerOperations) =>
          ~outcome.success /\ outcome.errors # <<>>

\* C5: URLProcessor.process answers a filter without a filter string, an
\* unknown operation and a `urls` that is no array with success = false, no
\* results and at least one error message.
C5_ProcessFailure ==
    Done({"process", "processOptimized"})
    /\ (RequestLevelError(EngineOperations) \/ options.operation = ""
        \/ urls.kind # "array") =>
        /\ ~outcome.success
        /\ outcome.results = <<>>
        /\ Len(outcome.errors) >= 1

\* a whitespace-only filter string over two entries
C5_Witness ==
    /\ Done({"process"})
    /\ options.operation = "filter" /\ options.filterString = <<" ">>
    /\ urls.kind = "array" /\ urls.length = 2
    /\ ~outcome.success

\* C6: for every request the worker receives it posts `start` at most once
\* and before any `progress`, and exactly one terminal message (`complete`
\* or `error`), which is the last one; every message carries the request's
\* id.
C6_MessageProtocol ==
    Done(WorkerScripts) =>
        /\ outcome.posts # <<>>
        /\ \A i \in 1..Len(outcome.posts) :
              /\ outcome.posts[i].id = 1
              /\ (outcome.posts[i].type \in {"complete", "error"})
                    <=> (i = Len(outcome.posts))
              /\ outcome.posts[i].type = "start" => i = 1
              /\ outcome.posts[i].type \in {"start", "progress", "complete", "error"}

\* a batched request whose two batches each report progress
C6_Witness ==
    /\ Done({"standalone"})
    /\ Len(outcome.posts) = 4
    /\ outcome.posts[1].type = "start"
    /\ outcome.posts[2].type = "progress"
    /\ outcome.posts[3].type = "progress"
    /\ outcome.posts[4].type = "complete"

\* the progress events of a call are in order: `processed` never decreases,
\* never exceeds `total`, and the percentage lies within 0..100
InOrder(events) ==
    \A i \in 1..Len(events) :
        /\ events[i].processed \in 0..events[i].total
        /\ events[i].percentage \in 0..100
        /\ \A j \in 1..(i - 1) : events[j].processed <= events[i].processed

\* the `progress` messages among the posts of a worker
ProgressMessages(posts) == SelectSeq(posts, LAMBDA m : m.type = "progress")

\* C12: within one processing call the `processed` count of successive
\* progress events never decreases and never exceeds `total`, and the
\* percentage stays within 0..100, for the progress records of the
\* in-process scheduler and for the worker's `progress` messages.
C12_ProgressOrdering ==
    /\ entry = "processBatches" => InOrder(run.progress)
    /\ Done(WorkerScripts) => InOrder(ProgressMessages(outcome.posts))

\* three chunks of one entry each have reported 33, 67 and 100 percent
C12_Witness ==
    /\ Done({"processBatches"})
    /\ Len(run.progress) = 3
    /\ run.progress[1].percentage = 33
    /\ run.progress[2].percentage = 67
    /\ run.progress[3].percentage = 100

\* the call under study has produced a ProcessingResult: process or the
\* in-process scheduler has returned, or the standalone worker has posted
\* `complete`.  (The modular script spreads a Promise into its `stats`,
\* which then carry no counters at all.)
Produced ==
    /\ pc = "done"
    /\ entry \in WorkerScripts =>
          /\ entry = "standalone"
          /\ outcome.posts[Len(outcome.posts)].type = "complete"

\* C13: every ProcessingResult, of process on success or failure, of the
\* in-process scheduler and of the worker's `complete` message, has
\* outputCount + removedCount = inputCount and removedCount >= invalidCount.
C13_CounterInvariant ==
    Produced =>
        /\ outcome.stats.outputCount + outcome.stats.removedCount
              = outcome.stats.inputCount
        /\ outcome.stats.removedCount >= outcome.stats.invalidCount

\* C14: in every ProcessingResult outputCount is the number of entries of
\* `results`, and outputCount + invalidCount <= inputCount: each input entry
\* is accounted at most once, as an output or as an invalid entry.
C14_ResultSize ==
    Produced =>
        /\ outcome.stats.outputCount = Len(outcome.results)
        /\ outcome.stats.outputCount + outcome.stats.invalidCount
              <= outcome.stats.inputCount

\* every entry of a list of three is accounted: two kept, one invalid
C14_Witness ==
    /\ Done({"process"})
    /\ options.operation = "removeParameters"
    /\ outcome.stats.inputCount = 3
    /\ outcome.stats.outputCount = 2
    /\ outcome.stats.invalidCount = 1

\* the operations that work entry by entry
EntrywiseOperations == {"removeParameters", "filter", "keepTLDOnly", "trimLastPath"}

\* the kept or transformed form of one input entry under the operation of
\* the call: the results of the operation for that entry alone, none when
\* the entry is dropped
FormOf(item) == workerProcessSync(<<item>>, options.operation, options).results

\* out[k..] is, entry by entry and in order, the form of entries of
\* items[i..]; taking the first entry that fits loses no embedding
RECURSIVE Embeds(_, _, _, _)
Embeds(out, k, items, i) ==
    IF k > Len(out) THEN TRUE
    ELSE IF i > Len(items) THEN FALSE
    ELSE IF FormOf(items[i]) = <<out[k]>>
    THEN Embeds(out, k + 1, items, i + 1)
    ELSE Embeds(out, k, items, i + 1)

\* C15: for removeParameters, filter, keepTLDOnly and trimLastPath every
\* output entry is the kept or transformed form of one input entry, and the
\* output entries appear in the order of their input positions.
C15_OrderPreserved ==
    Done({"process", "workerProcess", "standalone"}) /\ outcome.success
    /\ options.operation \in EntrywiseOperations =>
        Embeds(outcome.results, 1, urls.items, 1)

\* a filter that keeps the first and the third of three entries
C15_Witness ==
    /\ Done({"process"})
    /\ options.operation = "filter" /\ options.type = "exclude"
    /\ urls.length = 3
    /\ FormOf(urls.items[2]) = <<>>
    /\ Len(outcome.results) = 2
    /\ outcome.results[1] # outcome.results[2]

\* the three sort operations and what each sorts by
SortKinds ==
    [sortByDomain |-> "domain", sortByLength |-> "length",
     sortByFilename |-> "filename"]

\* the sort key of an entry: lower-cased hostname, string length, lower-cased
\* filename stem
KeyOf(kind, item) ==
    CASE kind = "domain" -> toLowerCase(parse(item).hostname)
      [] kind = "length" -> strLength(item)
      [] OTHER ->
            toLowerCase(filenameOf(
                split(IF parse(item).path = <<>> THEN <<"/">> ELSE parse(item).path,
                      "/"),
                parse(item).hostname))

\* key k does not come after key l
NotAfter(kind, k, l) ==
    IF kind = "length" THEN k <= l ELSE localeCompare(k, l) <= 0

\* the valid entries of the input, trimmed, in input order
ValidEntries(items) ==
    SelectSeq([i \in 1..Len(items) |-> trim(items[i])],
              LAMBDA item : item # <<>> /\ isValid(item))

\* the entries of a list that have the key of `item`, in the order of the list
WithKeyOf(kind, list, item) ==
    SelectSeq(list, LAMBDA other : KeyOf(kind, other) = KeyOf(kind, item))

\* `out` holds the entries of `valid` in ascending order of their keys, the
\* entries of equal key in the order they have in `valid`
StablySorted(kind, out, valid) ==
    /\ Len(out) = Len(valid)
    /\ \A i, j \in 1..Len(out) :
          i < j => NotAfter(kind, KeyOf(kind, out[i]), KeyOf(kind, out[j]))
    /\ \A i \in 1..Len(valid) :
          WithKeyOf(kind, out, valid[i]) = WithKeyOf(kind, valid, valid[i])

\* C16: for sortByDomain, sortByLength and sortByFilename the output is a
\* permutation of the valid input entries in ascending order of their sort
\* key, and entries of equal key keep their relative input order.
C16_SortStable ==
    Done({"workerProcess"}) /\ outcome.success
    /\ options.operation \in DOMAIN SortKinds =>
        StablySorted(SortKinds[options.operation], outcome.results,
                     ValidEntries(urls.items))

\* three entries sorted by host: the first goes last, and the two of equal
\* host, spelled differently, keep their order
C16_Witness ==
    /\ Done({"workerProcess"})
    /\ options.operation = "sortByDomain"
    /\ urls.length = 3 /\ Len(outcome.results) = 3
    /\ outcome.results[3] = trim(urls.items[1])
    /\ outcome.results[1] = urls.items[2]
    /\ outcome.results[2] = urls.items[3]
    /\ urls.items[2] # urls.items[3]
    /\ KeyOf("domain", urls.items[2]) = KeyOf("domain", urls.items[3])

\* the request ended with a `complete` message
Completed ==
    Done(WorkerScripts) /\ outcome.posts[Len(outcome.posts)].type = "complete"

\* URLProcessor.process of js/url-processor.js on the same arguments, with
\* or without a PerformanceOptimizer class loaded
InProcess(hasOptimizer) ==
    process(urls, options.operation, options, hasOptimizer)

\* C18: for the same URL list, operation and options, the `complete` message
\* of a worker script (standalone or modular) carries the success flag and
\* the results that URLProcessor.process of js/url-processor.js returns
\* in-process.
C18_OffloadEquivalence ==
    Completed =>
        \E hasOptimizer \in BOOLEAN :
            /\ outcome.success = InProcess(hasOptimizer).success
            /\ outcome.results = InProcess(hasOptimizer).results

\* lines as a text area gives them: empty, whitespace only, a URL, and one
\* that is none
LinePool ==
    {<<>>, <<" ">>, <<"https", "://", "a", ".", "com">>, <<"://", "invalid">>}

\* the engine started on lists of such lines
InitLines ==
    /\ urls \in {Arr(l) : l \in SeqsUpTo(LinePool, MaxLen)}
    /\ options \in OptionSet
    /\ pc = "idle"
    /\ entry = "none"
    /\ run = NoRun
    /\ outcome = NoOutcome
    /\ Constructed

SpecLines == InitLines /\ [][Next]_vars

\* how many entries of a list satisfy Test
CountOf(items, Test(_)) == Cardinality({i \in 1..Len(items) : Test(items[i])})

NonBlank(item) == ~IsBlankEntry(item)

NonBlankUnclassified(item) == ~IsBlankEntry(item) /\ ~isValid(item)

\* C20: blank (empty or whitespace-only) entries are excluded from
\* inputCount and are not counted in invalidCount; only non-blank entries
\* that fail classification are counted as invalid.
C20_BlankAccounting ==
    Done({"process", "workerProcess"}) /\ outcome.success =>
        /\ outcome.stats.inputCount = CountOf(urls.items, NonBlank)
        /\ outcome.stats.invalidCount <= CountOf(urls.items, NonBlankUnclassified)

\* the entry classifies as valid / and has no subdomain
Classifies(item) == parse(trim(item)).valid

Unclassified(item) == ~parse(trim(item)).valid

ClassifiesWithoutSubdomain(item) ==
    parse(trim(item)).valid /\ parse(trim(item)).subdomain = <<>>

\* C22: keepTLDOnly keeps exactly the input entries that classify as valid
\* and have an empty subdomain, in input order; an entry whose host has a
\* `www.` or any other subdomain is excluded, and an invalid entry is dropped
\* and counted in invalidCount.
C22_KeepTLDOnly ==
    Done({"process", "workerProcess"}) /\ options.operation = "keepTLDOnly"
    /\ urls.kind = "array" =>
        /\ outcome.success
        /\ outcome.results =
              [i \in 1..CountOf(urls.items, ClassifiesWithoutSubdomain) |->
                  trim(SelectSeq(urls.items, ClassifiesWithoutSubdomain)[i])]
        /\ outcome.stats.invalidCount = CountOf(urls.items, Unclassified)

\* a bare host is kept, the `www.` one excluded, the invalid one counted
C22_Witness ==
    /\ Done({"process"}) /\ options.operation = "keepTLDOnly"
    /\ urls.length = 3
    /\ Classifies(urls.items[1]) /\ parse(trim(urls.items[1])).subdomain = <<"www">>
    /\ ClassifiesWithoutSubdomain(urls.items[2])
    /\ Unclassified(urls.items[3])
    /\ outcome.results = <<urls.items[2]>>
    /\ outcome.stats.invalidCount = 1

(***************************************************************************)
(* The offloading channel: WorkerManager (js/worker-manager.js), the       *)
(* worker threads, and the run lifecycle of URLManager                     *)
(* (js/text-area-manager.js).  Everything on the main thread is one        *)
(* record s, and every handler is a function from the state before it to   *)
(* the state after it.  A promise continuation runs as a microtask of the  *)
(* task that settles the promise, before any other task, so it is applied  *)
(* where the promise is settled.                                           *)
(***************************************************************************)
Main ==
    [worker |-> worker, isReady |-> isReady,
     pendingRequests |-> pendingRequests,
     requestIdCounter |-> requestIdCounter, callbacks |-> callbacks,
     promises |-> promises, threads |-> threads, useWorker |-> useWorker,
     isProcessing |-> isProcessing, processingTimeout |-> processingTimeout,
     runs |-> runs, output |-> output, timedOut |-> timedOut]

Commit(s) ==
    /\ worker' = s.worker
    /\ isReady' = s.isReady
    /\ pendingRequests' = s.pendingRequests
    /\ requestIdCounter' = s.requestIdCounter
    /\ callbacks' = s.callbacks
    /\ promises' = s.promises
    /\ threads' = s.threads
    /\ useWorker' = s.useWorker
    /\ isProcessing' = s.isProcessing
    /\ processingTimeout' = s.processingTimeout
    /\ runs' = s.runs
    /\ output' = s.output
    /\ timedOut' = s.timedOut

\* ErrorHandler.determineErrorCode, for the messages of this model: the
\* words looked for in the message, then the context
MentionsWorker ==
    {"Worker error", "Worker terminated",
     "Worker not initialized. Call initialize() first."}

determineErrorCode(message, context) ==
    IF message \in MentionsWorker THEN "WORKER_ERROR"
    ELSE IF message = "Processing timed out" THEN "PROCESSING_TIMEOUT"
    ELSE CASE context = "url_processing" -> "PROCESSING_FAILED"
           [] context = "web_worker"     -> "WORKER_ERROR"
           [] OTHER                      -> "UNKNOWN_ERROR"

\* ErrorHandler.attemptRecovery: whether recovery.success is set.  No
\* window.urlManager exists, so the recoveries themselves change nothing.
attemptRecovery(errorCode) ==
    errorCode \in {"WORKER_ERROR", "WORKER_NOT_SUPPORTED", "PROCESSING_TIMEOUT"}

\* an end of processing that clears the timer and leaves the flag
finishProcessingKeepingFlag(s) ==
    [s EXCEPT !.processingTimeout = FALSE]

\* URLManager.finishProcessing
finishProcessing(s) ==
    [s EXCEPT !.isProcessing = FALSE, !.processingTimeout = FALSE]

\* URLManager.handleProcessingResults for a successful result: the output
\* area shows the results of `source`
handleProcessingResults(s, source) == [s EXCEPT !.output = source]

\* URLManager.processURLs from the point where run r resumes after its
\* await: handleProcessingResults or handleProcessingError, then finally
resumeRun(s, r, fulfilled, source) ==
    finishProcessing(
        [(IF fulfilled THEN handleProcessingResults(s, source) ELSE s)
            EXCEPT !.runs[r].state = "finished"])

\* request.resolve / request.reject of request id, with the continuation of
\* the run that awaits it (run 0: a caller outside URLManager)
settle(s, id, how) ==
    IF s.promises[id].state # "pending" THEN s
    ELSE IF s.promises[id].run = 0
    THEN [s EXCEPT !.promises[id].state = how]
    ELSE resumeRun([s EXCEPT !.promises[id].state = how],
                   s.promises[id].run, how = "resolved", <<"request", id>>)

\* the first key of a Map whose keys were inserted in ascending order
firstKey(ids) == CHOOSE x \in ids : \A y \in ids : x <= y

\* `for (const [id, request] of this.pendingRequests) request.reject(...)`
RECURSIVE rejectAll(_, _)
rejectAll(s, ids) ==
    IF ids = {} THEN s
    ELSE rejectAll(settle(s, firstKey(ids), "rejected"), ids \ {firstKey(ids)})

\* the settling of that promise by a caller whose catch keeps useWorker
settleInitKeepingWorker(s, n, how) ==
    IF s.threads[n].init # "pending" THEN s
    ELSE [s EXCEPT !.threads[n].init = how,
                   !.callbacks = @ \/ how = "resolved"]

\* resolve / reject of the promise initialize() returned for the n-th worker,
\* with the continuation in URLManager.init when init made the call
settleInit(s, n, how) ==
    IF s.threads[n].init # "pending" THEN s
    ELSE IF s.threads[n].caller # "init"
    THEN [s EXCEPT !.threads[n].init = how]
    ELSE IF how = "resolved"
    THEN [s EXCEPT !.threads[n].init = how, !.callbacks = TRUE]
    ELSE [s EXCEPT !.threads[n].init = how, !.useWorker = FALSE]

\* URLManager.handleWorkerError, the error callback
URLManager_handleWorkerError(s, message) ==
    IF attemptRecovery(determineErrorCode(message, "web_worker"))
    THEN [s EXCEPT !.useWorker = FALSE]
    ELSE s

\* `if (this.onErrorCallback) this.onErrorCallback(...)`
onErrorCallback(s, message) ==
    IF s.callbacks THEN URLManager_handleWorkerError(s, message) ELSE s

\* WorkerManager.terminate
terminate(s) ==
    IF s.worker = 0 THEN s
    ELSE [rejectAll(s, s.pendingRequests) EXCEPT
            !.pendingRequests = {},
            !.threads[s.worker] =
                [@ EXCEPT !.alive = FALSE, !.inbox = <<>>, !.outbox = <<>>],
            !.worker = 0,
            !.isReady = FALSE]

\* WorkerManager.isWorkerReady
isWorkerReady(s) == s.isReady /\ s.worker # 0

\* WorkerManager.handleWorkerError
handleWorkerError(s, message) ==
    onErrorCallback([rejectAll(s, s.pendingRequests)
                        EXCEPT !.pendingRequests = {}], message)

\* worker.onerror of the n-th worker
onerror(s, n) ==
    settleInit(handleWorkerError([s EXCEPT !.threads[n].faulted = TRUE],
                                 "Worker error"),
               n, "rejected")

\* WorkerManager.handleCompleteMessage.  With URLManager's callbacks set the
\* completion callback is handleWorkerComplete, which hands the message to
\* handleProcessingResults, and that throws when success is not set.
handleCompleteMessage(s, data) ==
    IF data.id \notin s.pendingRequests THEN s
    ELSE IF ~s.callbacks
    THEN settle([s EXCEPT !.pendingRequests = @ \ {data.id}], data.id,
                IF data.success THEN "resolved" ELSE "rejected")
    ELSE IF data.success
    THEN settle(handleProcessingResults(
                    [s EXCEPT !.pendingRequests = @ \ {data.id}],
                    <<"request", data.id>>),
                data.id, "resolved")
    ELSE [s EXCEPT !.pendingRequests = @ \ {data.id}]

\* `if (data.id) { ... }` of handleErrorMessage
rejectRequest(s, id) ==
    IF id # 0 /\ id \in s.pendingRequests
    THEN settle([s EXCEPT !.pendingRequests = @ \ {id}], id, "rejected")
    ELSE s

\* WorkerManager.handleErrorMessage
handleErrorMessage(s, data) ==
    rejectRequest(onErrorCallback(s, data.error), data.id)

\* WorkerManager.handleWorkerMessage; start and progress only reach the
\* progress display
handleWorkerMessage(s, data) ==
    CASE data.type = "complete" -> handleCompleteMessage(s, data)
      [] data.type = "error"    -> handleErrorMessage(s, data)
      [] OTHER                  -> s

\* readyHandler of initialize() for the n-th worker.  removeEventListener is
\* called on this.worker, whichever worker that is by now, and throws when
\* it is null, before resolve() is reached.
readyHandler(s, n, data) ==
    IF data.type # "ready" THEN s
    ELSE IF s.worker = 0 THEN [s EXCEPT !.isReady = TRUE]
    ELSE settleInit([s EXCEPT !.isReady = TRUE], n, "resolved")

\* deliver one message of the n-th worker: worker.onmessage, then the
\* readyHandler listener that initialize() added
deliver(s, n, data) == readyHandler(handleWorkerMessage(s, data), n, data)

\* the Worker object initialize() constructs, with the promise it returns
newWorker(script, caller) ==
    [script |-> script, alive |-> TRUE, loaded |-> FALSE, inbox |-> <<>>,
     outbox |-> <<>>, faulted |-> FALSE, rejections |-> 0,
     init |-> "pending", caller |-> caller]

\* WorkerManager.initialize.  `constructed` is the script whose Worker
\* constructor succeeded, "none" when both threw; the rejection then reaches
\* the catch of URLManager.init when init made the call.
initialize(s, caller, constructed) ==
    IF constructed = "none"
    THEN IF caller = "init" THEN [s EXCEPT !.useWorker = FALSE] ELSE s
    ELSE [s EXCEPT !.threads = Append(@, newWorker(constructed, caller)),
                   !.worker = Len(s.threads) + 1]

\* the setTimeout callback of the initialize() call that made worker n
initializationTimeout(s, n) ==
    IF ~s.isReady THEN settleInit(s, n, "rejected") ELSE s

\* WorkerManager.processURLs, awaited by run r of URLManager (0: by a
\* caller outside URLManager).  The id is requestIdCounter after the
\* increment of generateRequestId.
processURLs(s, req, r) ==
    IF ~s.isReady \/ s.worker = 0
    THEN IF r = 0 THEN s ELSE resumeRun(s, r, FALSE, <<>>)
    ELSE [s EXCEPT
            !.requestIdCounter = @ + 1,
            !.pendingRequests = @ \cup {s.requestIdCounter + 1},
            !.promises = Append(@, [state |-> "pending", run |-> r]),
            !.threads[s.worker].inbox =
                Append(@, [id        |-> s.requestIdCounter + 1,
                           operation |-> req.operation,
                           urls      |-> req.urls,
                           options   |-> req.options])]

\* URLManager.startProcessing, and the call's place among the runs
startProcessing(s, kind, req) ==
    [s EXCEPT !.isProcessing = TRUE,
              !.processingTimeout = TRUE,
              !.runs = Append(@, [kind |-> kind, state |-> "awaiting",
                                  input |-> req, timedOut |-> FALSE])]

\* URLManager.processURLs up to its await, for an input that passes
\* validation
URLManager_processURLs(s, req) ==
    IF s.isProcessing THEN s
    ELSE IF s.useWorker /\ req.urls.length > WORKER_THRESHOLD
    THEN processURLs(startProcessing(s, "worker", req), req, Len(s.runs) + 1)
    ELSE startProcessing(s, "main", req)

\* URLManager.processInChunks: the chunk size, and what processBatches
\* returns for it
\* a chunk size without the floor of 100
chunkSizeWithoutFloor(length, highUsage) ==
    Min(IF highUsage THEN 500 ELSE 1000, length \div 10)

chunkSize(length, highUsage) ==
    Min(IF highUsage THEN 500 ELSE 1000,
        IF length \div 10 > 100 THEN length \div 10 ELSE 100)

processInChunks(req, highUsage) ==
    batchesLoop(batchesStart(req.urls.items, "process", req.options,
                             chunkSize(req.urls.length, highUsage), <<>>))

\* the requests pending for the run in progress
awaited(s) ==
    {id \in 1..Len(s.promises) :
        s.promises[id].state = "pending" /\ s.promises[id].run = Len(s.runs)}

\* the timeout is reported for the run whose timer fired, the latest
reportTimeout(s) ==
    [s EXCEPT !.timedOut = @ \cup awaited(s),
              !.runs = [r \in 1..Len(s.runs) |->
                            IF r = Len(s.runs) /\ s.runs[r].state = "awaiting"
                            THEN [s.runs[r] EXCEPT !.timedOut = TRUE]
                            ELSE s.runs[r]]]

\* URLManager.handleProcessingTimeout
handleProcessingTimeout(s) ==
    IF ~s.isProcessing THEN [s EXCEPT !.processingTimeout = FALSE]
    ELSE finishProcessing(IF s.useWorker
                          THEN terminate(reportTimeout(s))
                          ELSE reportTimeout(s))

\* URLManager.reset
reset(s) ==
    [(IF s.isProcessing /\ s.useWorker THEN terminate(s) ELSE s) EXCEPT
        !.processingTimeout = IF s.isProcessing THEN FALSE ELSE @,
        !.isProcessing = FALSE,
        !.output = <<>>]

\* the requests of the model: one the worker batches and completes, one
\* whose single batch fails, one the worker's input check refuses
Request(operation, items, filterString) ==
    [operation |-> operation, urls |-> Arr(items),
     options |-> Option(operation, "", filterString)]

LargeRequest ==
    Request("removeParameters",
            <<<<"https", "://", "a", ".", "com", "/", "p", "?", "q">>,
              <<"https", "://", "a", ".", "com">>,
              <<"://", "invalid">>>>, undefined)

FailingRequest ==
    Request("filter", <<<<"https", "://", "a", ".", "com">>>>, undefined)

InvalidRequest == Request("", <<>>, undefined)

SmallInput ==
    Request("removeParameters",
            <<<<"https", "://", "a", ".", "com", "/", "p", "?", "q">>>>,
            undefined)

(***************************************************************************)
(* The channel as a state machine.  Each action is one task of the main    *)
(* thread or of a worker thread.                                           *)
(***************************************************************************)
InitChannel ==
    /\ urls = NullArg
    /\ options = Option("", "", undefined)
    /\ pc = "idle"
    /\ entry = "none"
    /\ run = NoRun
    /\ outcome = NoOutcome
    /\ Constructed

\* whether URLManager.init has made its call of initialize()
Started == threads # <<>> \/ ~useWorker

\* URLManager.init: `await this.workerManager.initialize()`
URLManager_init ==
    /\ ~Started
    /\ \E constructed \in WorkerScripts \cup {"none"} :
          Commit(initialize(Main, "init", constructed))
    /\ UNCHANGED <<engineVars, cacheVars, inputVars>>

\* initialize() called again by the holder of the manager
Initialize ==
    /\ Started
    /\ Len(threads) < MaxWorkers
    /\ \E constructed \in WorkerScripts \cup {"none"} :
          Commit(initialize(Main, "caller", constructed))
    /\ UNCHANGED <<engineVars, cacheVars, inputVars>>

\* the 5000 ms timer of an initialize() call fires; it fires once, and
\* changes nothing once the promise is settled
InitializationTimeout ==
    /\ \E n \in 1..Len(threads) :
          /\ threads[n].init = "pending"
          /\ Commit(initializationTimeout(Main, n))
    /\ UNCHANGED <<engineVars, cacheVars, inputVars>>

\* WorkerManager.processURLs called from outside URLManager
ProcessURLs ==
    /\ Started
    /\ requestIdCounter < MaxRequests
    /\ \E req \in {LargeRequest, FailingRequest, InvalidRequest} :
          Commit(processURLs(Main, req, 0))
    /\ UNCHANGED <<engineVars, cacheVars, inputVars>>

\* WorkerManager.terminate called from outside URLManager
Terminate ==
    /\ Started
    /\ Commit(terminate(Main))
    /\ UNCHANGED <<engineVars, cacheVars, inputVars>>

\* the process button: URLManager.processURLs
ProcessClick ==
    /\ Started
    /\ Len(runs) < MaxRuns
    /\ requestIdCounter < MaxRequests
    /\ \E req \in {LargeRequest, SmallInput} :
          Commit(URLManager_processURLs(Main, req))
    /\ UNCHANGED <<engineVars, cacheVars, inputVars>>

\* processWithMainThread returns to run r, or throws
MainThreadReturns ==
    /\ \E r \in 1..Len(runs) :
          /\ runs[r].kind = "main"
          /\ runs[r].state = "awaiting"
          /\ \E highUsage \in BOOLEAN :
                Commit(resumeRun(Main, r,
                                 ~processInChunks(runs[r].input, highUsage).threw,
                                 <<"run", r>>))
    /\ UNCHANGED <<engineVars, cacheVars, inputVars>>

\* the processing timer fires
ProcessingTimeout ==
    /\ processingTimeout
    /\ Commit(handleProcessingTimeout(Main))
    /\ UNCHANGED <<engineVars, cacheVars, inputVars>>

\* URLManager.reset
Reset ==
    /\ Started
    /\ Commit(reset(Main))
    /\ UNCHANGED <<engineVars, cacheVars, inputVars>>

\* a worker script runs to its end, where it posts `ready`; an error event
\* before that is the script failing to load or to run to its end
WorkerLoads ==
    /\ \E n \in 1..Len(threads) :
          /\ threads[n].alive
          /\ ~threads[n].loaded
          /\ ~threads[n].faulted
          /\ Commit([Main EXCEPT
                       !.threads[n].loaded = TRUE,
                       !.threads[n].outbox = Append(@, Message(0, "ready"))])
    /\ UNCHANGED <<engineVars, cacheVars, inputVars>>

\* self.onmessage of a worker for the next request posted to it
WorkerHandles ==
    /\ \E n \in 1..Len(threads) :
          /\ threads[n].alive
          /\ threads[n].loaded
          /\ threads[n].inbox # <<>>
          /\ \E ticks \in SteadyTicks(Head(threads[n].inbox).urls.length) :
                Commit([Main EXCEPT
                          !.threads[n].inbox = Tail(@),
                          !.threads[n].outbox =
                              @ \o onmessage(threads[n].script,
                                             Head(threads[n].inbox), ticks)])
    /\ UNCHANGED <<engineVars, cacheVars, inputVars>>

\* self.onunhandledrejection of a worker: an `error` message without id
WorkerRejection ==
    /\ \E n \in 1..Len(threads) :
          /\ threads[n].alive
          /\ threads[n].loaded
          /\ threads[n].rejections < MaxRejections
          /\ Commit([Main EXCEPT
                       !.threads[n].rejections = @ + 1,
                       !.threads[n].outbox =
                           Append(@, [Message(0, "error") EXCEPT
                                        !.error = "Unhandled promise rejection"])])
    /\ UNCHANGED <<engineVars, cacheVars, inputVars>>

\* an error event at a Worker object: worker.onerror
WorkerError ==
    /\ \E n \in 1..Len(threads) :
          /\ threads[n].alive
          /\ Commit(onerror(Main, n))
    /\ UNCHANGED <<engineVars, cacheVars, inputVars>>

\* the main thread takes the next message of a worker
Deliver ==
    /\ \E n \in 1..Len(threads) :
          /\ threads[n].outbox # <<>>
          /\ Commit(deliver([Main EXCEPT !.threads[n].outbox = Tail(@)], n,
                            Head(threads[n].outbox)))
    /\ UNCHANGED <<engineVars, cacheVars, inputVars>>

\* the manager under any caller, with URLManager's callbacks
NextChannel ==
    \/ URLManager_init
    \/ Initialize
    \/ InitializationTimeout
    \/ ProcessURLs
    \/ Terminate
    \/ WorkerLoads
    \/ WorkerHandles
    \/ WorkerError
    \/ Deliver

SpecChannel == InitChannel /\ [][NextChannel]_vars

\* the application: URLManager is the manager's only caller
NextApp ==
    \/ URLManager_init
    \/ InitializationTimeout
    \/ ProcessClick
    \/ MainThreadReturns
    \/ ProcessingTimeout
    \/ Reset
    \/ WorkerLoads
    \/ WorkerHandles
    \/ WorkerRejection
    \/ WorkerError
    \/ Deliver

SpecApp == InitChannel /\ [][NextApp]_vars

(***************************************************************************)
(* Properties of the channel.                                              *)
(***************************************************************************)
\* the step is the main thread taking a message of the n-th worker
Delivers(n) ==
    /\ threads[n].outbox # <<>>
    /\ threads'[n] = [threads[n] EXCEPT !.outbox = Tail(@)]

\* the promises other than that of request id are as they were
OthersUnchanged(id) ==
    \A x \in 1..requestIdCounter : x # id => promises'[x] = promises[x]

\* a terminal message for request id is handled as the specification describes
C7_Terminal(data) ==
    IF data.id \in pendingRequests
    THEN /\ pendingRequests' = pendingRequests \ {data.id}
         /\ promises'[data.id].state =
               IF data.type = "complete" /\ data.success
               THEN "resolved" ELSE "rejected"
         /\ OthersUnchanged(data.id)
    ELSE /\ pendingRequests' = pendingRequests
         /\ promises' = promises

\* C7: each accepted processURLs call registers one pending entry under a
\* fresh id and leaves the others alone; a terminal message with id X
\* settles exactly the promise of X and removes X, leaving every other
\* entry unchanged; a terminal message for an id that is not pending
\* changes nothing.
C7_PendingBookkeeping ==
    [][/\ requestIdCounter' # requestIdCounter =>
            /\ requestIdCounter' = requestIdCounter + 1
            /\ requestIdCounter' \notin pendingRequests
            /\ pendingRequests' = pendingRequests \cup {requestIdCounter'}
            /\ promises'[requestIdCounter'].state = "pending"
            /\ OthersUnchanged(requestIdCounter')
       /\ \A n \in 1..Len(threads) :
            Delivers(n)
            /\ Head(threads[n].outbox).type \in {"complete", "error"} =>
                C7_Terminal(Head(threads[n].outbox))
      ]_vars

\* the current worker has raised a channel-level fault
Dead == worker # 0 /\ threads[worker].faulted

\* C8: at a channel-level fault every pending request is rejected and the
\* pending map is emptied, and from then on no processURLs request is
\* accepted until initialize() has been called again.
C8_ChannelFault ==
    [][/\ \A n \in 1..Len(threads) :
            ~threads[n].faulted /\ threads'[n].faulted =>
                /\ pendingRequests' = {}
                /\ \A x \in pendingRequests : promises'[x].state = "rejected"
       /\ Dead => requestIdCounter' = requestIdCounter
      ]_vars

Phase(w, ready, constructed) ==
    IF w = 0
    THEN IF constructed = <<>> THEN "uninitialized" ELSE "terminated"
    ELSE IF ready THEN "ready" ELSE "initializing"

\* the moves along the chain; terminate() before readiness and initialize()
\* after terminate() are taken as moves of it
C10_Moves ==
    {<<"uninitialized", "initializing">>, <<"initializing", "ready">>,
     <<"ready", "terminated">>, <<"initializing", "terminated">>,
     <<"terminated", "initializing">>}

\* C10: the manager moves only along uninitialized, initializing, ready,
\* terminated; processURLs is accepted only when the manager is ready;
\* isReady implies a worker object; and terminate() leaves the manager not
\* ready, without worker, the pending map empty and every formerly pending
\* request rejected.
C10_StateMachine ==
    [][/\ Phase(worker', isReady', threads') # Phase(worker, isReady, threads)
            => <<Phase(worker, isReady, threads),
                 Phase(worker', isReady', threads')>> \in C10_Moves
       /\ requestIdCounter' # requestIdCounter => isReady /\ worker # 0
       /\ isReady' => worker' # 0
       /\ worker # 0 /\ worker' = 0 =>
            /\ ~isReady'
            /\ pendingRequests' = {}
            /\ \A x \in pendingRequests : promises'[x].state = "rejected"
      ]_vars

\* the promise of the initialize() call that made worker n is settled before
\* the main thread has seen `ready`, by no message and no fault of the
\* worker: its timer has fired
TimesOut(n) ==
    /\ threads[n].init = "pending"
    /\ ~isReady
    /\ threads'[n].init # "pending"
    /\ threads'[n].faulted = threads[n].faulted
    /\ threads'[n].outbox = threads[n].outbox

\* an initialize() call of URLManager.init has failed
InitFailed(ts) ==
    \E n \in 1..Len(ts) : ts[n].caller = "init" /\ ts[n].init = "rejected"

\* C11: when the initialization timer fires before `ready` has arrived the
\* promise of initialize() is rejected and URLManager sets useWorker to
\* false; once initialization has failed useWorker stays false and no run is
\* dispatched to the worker.
C11_InitializationTimeout ==
    [][/\ \A n \in 1..Len(threads) :
            TimesOut(n) => threads'[n].init = "rejected" /\ ~useWorker'
       /\ InitFailed(threads) =>
            /\ ~useWorker /\ ~useWorker'
            /\ requestIdCounter' = requestIdCounter
            /\ \A r \in 1..Len(runs') : r > Len(runs) => runs'[r].kind = "main"
      ]_vars

\* after the timeout a run of more than WORKER_THRESHOLD URLs was started,
\* in process
C11_Witness ==
    /\ threads # <<>>
    /\ threads[1].init = "rejected" /\ ~threads[1].faulted
    /\ \E r \in 1..Len(runs) :
          runs[r].kind = "main" /\ runs[r].input = LargeRequest

(***************************************************************************)
(* The control panel's operation names: validation                         *)
(* (InputValidator.validateOperation), the mapping to processing options   *)
(* (URLManager.mapOperationOptions) and the dispatch of the mapped         *)
(* options (URLProcessor.process of js/url-processor.js).                   *)
(***************************************************************************)

\* the operation names the control panel offers
PublicOperations ==
    {"removeParams", "deduplicateTLD", "deduplicateDomain", "deduplicateFull",
     "filterKeep", "filterRemove", "keepTLD", "trimLastPath", "extractTLD",
     "sortByDomain", "sortByLength", "sortByFilename"}

\* validationRules.operation.allowedValues of InputValidator
allowedValues ==
    {"removeParams", "deduplicateTLD", "deduplicateDomain", "deduplicateFull",
     "filterRemove", "filterKeep", "keepTLD"}

\* InputValidator.validateOperation: isValid and the code of its error
validateOperation(operation) ==
    IF operation = ""
    THEN [isValid |-> FALSE, errors |-> <<"OPERATION_NOT_SELECTED">>,
          requiresFilter |-> FALSE]
    ELSE IF operation \notin allowedValues
    THEN [isValid |-> FALSE, errors |-> <<"INVALID_OPERATION">>,
          requiresFilter |-> FALSE]
    ELSE [isValid |-> TRUE, errors |-> <<>>,
          requiresFilter |-> operation \in {"filterRemove", "filterKeep"}]

Mapped(processingOptions) == [threw |-> FALSE, value |-> processingOptions]

\* URLManager.mapOperationOptions: the processing options, or the throw of
\* its default branch
mapOperationOptions(panel) ==
    CASE panel.operation = "removeParams" ->
            Mapped(Option("removeParameters", "", undefined))
      [] panel.operation = "deduplicateTLD" ->
            Mapped(Option("deduplicate", "tld", undefined))
      [] panel.operation = "deduplicateDomain" ->
            Mapped(Option("deduplicate", "domain", undefined))
      [] panel.operation = "deduplicateFull" ->
            Mapped(Option("deduplicate", "full", undefined))
      [] panel.operation = "filterRemove" ->
            Mapped(Option("filter", "exclude", panel.filterString))
      [] panel.operation = "filterKeep" ->
            Mapped(Option("filter", "include", panel.filterString))
      [] panel.operation = "keepTLD" ->
            Mapped(Option("keepTLDOnly", "", undefined))
      [] OTHER ->
            [threw |-> TRUE, value |-> Option("", "", undefined)]

\* what the control panel can hold: each public name, no selection, a name
\* that is none of them; a filter string for the two filter operations
PanelSelections ==
    {Option(o, "", undefined) : o \in PublicOperations \cup {"", "invalidOperation"}}
    \cup {Option(o, "", <<"b">>) : o \in {"filterKeep", "filterRemove"}}

InitPanel ==
    /\ urls \in {Arr(l) : l \in UrlLists}
    /\ options \in PanelSelections
    /\ pc = "idle"
    /\ entry = "none"
    /\ run = NoRun
    /\ outcome = NoOutcome
    /\ Constructed

\* InputValidator.validateOperation applied to the panel's operation
CallValidateOperation ==
    /\ pc = "idle"
    /\ outcome' = Outcome(validateOperation(options.operation).isValid, <<>>,
                          validateOperation(options.operation).errors,
                          resetStats, <<>>)
    /\ entry' = "validateOperation"
    /\ pc' = "done"
    /\ UNCHANGED <<urls, options, run>>
    /\ UNCHANGED <<channelVars, cacheVars, inputVars>>

\* URLManager.mapOperationOptions applied to the panel's options; its throw
\* ends the handler
CallMapOperationOptions ==
    /\ pc = "idle"
    /\ outcome' = Outcome(~mapOperationOptions(options).threw, <<>>,
                          IF mapOperationOptions(options).threw
                          THEN <<"Unknown operation">> ELSE <<>>,
                          resetStats, <<>>)
    /\ entry' = "mapOperationOptions"
    /\ pc' = IF mapOperationOptions(options).threw THEN "done" ELSE "mapped"
    /\ UNCHANGED <<urls, options, run>>
    /\ UNCHANGED <<channelVars, cacheVars, inputVars>>

\* URLProcessor.process called with the mapped options, with or without a
\* PerformanceOptimizer class loaded
ProcessMapped ==
    /\ pc = "mapped"
    /\ \E hasOptimizer \in BOOLEAN :
        /\ outcome' = Returns(process(urls,
                                      mapOperationOptions(options).value.operation,
                                      mapOperationOptions(options).value,
                                      hasOptimizer))
        /\ entry' = IF hasOptimizer THEN "processOptimized" ELSE "process"
    /\ pc' = "done"
    /\ UNCHANGED <<urls, options, run>>
    /\ UNCHANGED <<channelVars, cacheVars, inputVars>>

\* InputValidator.isValidDomain: the pattern asks a letter or digit in
\* front; two labels or more, the last of two letters or more
isValidDomain(domain) ==
    /\ domain # <<>>
    /\ domain[1] \in Words
    /\ Len(split(domain, ".")) >= 2
    /\ The({/\ Len(tld) = 1
            /\ tld[1] \in Words
            /\ Len(tld[1]) >= 2
            : tld \in {split(domain, ".")[Len(split(domain, "."))]}})

\* InputValidator.validateURLFormat of a trimmed line.  No token holds one
\* of the characters it refuses, and none begins with '//'.
validateURLFormat(url) ==
    IF \E i \in 1..Len(url) : url[i] = WS THEN FALSE
    ELSE IF Len(url) >= 2 /\ url[1] \in Schemes /\ url[2] = "://"
    THEN NewURL(url).ok
    ELSE IF includes(url, <<".">>)
    THEN isValidDomain(Before(url, {"/"}))
    ELSE FALSE

\* InputValidator.validateURLs of the lines of the input: the lines
\* trimmed, the blank ones dropped (parseURLInput), each validated, and the
\* summary of generateURLValidationSummary
validateURLs(lines) ==
    The({[isValid   |-> given # <<>> /\ SelectSeq(given, validateURLFormat) # <<>>,
          errors    |-> IF given = <<>> THEN <<"EMPTY_INPUT">>
                        ELSE IF SelectSeq(given, validateURLFormat) = <<>>
                        THEN <<"NO_VALID_URLS">>
                        ELSE <<>>,
          sanitized |-> SelectSeq(given, validateURLFormat)]
         : given \in {SelectSeq([i \in 1..Len(lines) |-> trim(lines[i])],
                                LAMBDA line : line # <<>>)}})

\* InputValidator.validateForm, as URLManager.processURLs calls it before
\* it processes anything; the filter string of this model's selections
\* passes validateFilterString when there is one
validateForm(formData, lines) ==
    [isValid   |-> /\ validateOperation(formData.operation).isValid
                   /\ validateOperation(formData.operation).requiresFilter
                          => formData.filterString # undefined
                   /\ validateURLs(lines).isValid,
     errors    |-> validateOperation(formData.operation).errors
                   \o (IF /\ validateOperation(formData.operation).requiresFilter
                          /\ formData.filterString = undefined
                       THEN <<"FILTER_REQUIRED">> ELSE <<>>)
                   \o validateURLs(lines).errors,
     sanitized |-> validateURLs(lines).sanitized]

\* the validation URLManager.processURLs makes of the form; when it fails
\* processURLs shows the errors and returns
CallValidateForm ==
    /\ pc = "idle"
    /\ outcome' = Outcome(validateForm(options, urls.items).isValid,
                          validateForm(options, urls.items).sanitized,
                          validateForm(options, urls.items).errors,
                          resetStats, <<>>)
    /\ entry' = "validateForm"
    /\ pc' = "done"
    /\ UNCHANGED <<urls, options, run>>
    /\ UNCHANGED <<channelVars, cacheVars, inputVars>>

NextPanel ==
    \/ CallValidateForm
    \/ CallValidateOperation
    \/ CallMapOperationOptions
    \/ ProcessMapped

SpecPanel == InitPanel /\ [][NextPanel]_vars

\* the dispatcher's refusal of an operation name
UnknownOperation(errors) ==
    \E i \in 1..Len(errors) : errors[i] = "Unknown operation"

\* C17: each of the twelve public operation names is accepted by input
\* validation, is mapped to an internal operation and subtype, and the mapped
\* operation is accepted by the dispatcher; none is rejected as invalid or
\* unknown.
C17_PublicVocabulary ==
    options.operation \in PublicOperations =>
        /\ entry = "validateOperation" => outcome.success
        /\ entry = "mapOperationOptions" => pc = "mapped"
        /\ entry = "process" => ~UnknownOperation(outcome.errors)

\* every entry of the input fails classification
NoneClassified ==
    /\ urls.length > 0
    /\ \A i \in 1..urls.length : ~isValid(urls.items[i])

\* the panel's operations that classify their entries
ClassifyingSelections ==
    {"removeParams", "deduplicateTLD", "deduplicateDomain", "deduplicateFull",
     "keepTLD"}

\* C21: when every input entry fails classification the processing call
\* still returns success = true with outputCount = 0 and an empty error
\* list; the failures of the entries show in invalidCount only and never
\* make the call fail, neither in the validation in front of it.
C21_AllInvalidSucceeds ==
    NoneClassified /\ options.operation \in ClassifyingSelections =>
        /\ Done({"process", "processOptimized"}) =>
              /\ outcome.success
              /\ outcome.stats.outputCount = 0
              /\ outcome.errors = <<>>
        /\ Done({"validateForm"}) => outcome.success /\ outcome.errors = <<>>

(***************************************************************************)
(* The result cache of PerformanceOptimizer under sequences of its         *)
(* accesses, the reads and writes of processWithCache (getCache has no     *)
(* caller).  The keys are those of processWithCache for one operation;     *)
(* maxCacheSize is as the constructor sets it.                             *)
(***************************************************************************)
CacheKeys ==
    {urlCacheKey(Option("removeParameters", "", undefined), url) : url \in UrlPool}

\* the keys of a cache
KeysOf(cache) == {cache[i].key : i \in 1..Len(cache)}

\* a use of key k: it becomes the most recently used
Touch(uses, k) == Append(SelectSeq(uses, LAMBDA u : u # k), k)

\* processWithCache's read of a key it finds cached:
\* `this.cache.has(urlCacheKey)`, `this.cache.get(urlCacheKey)`
CacheRead ==
    \E k \in CacheKeys :
        /\ cacheHas(optimizerCache, k)
        /\ cacheUses' = Touch(cacheUses, k)
        /\ cacheUses' # cacheUses
        /\ UNCHANGED optimizerCache
        /\ UNCHANGED <<engineVars, channelVars, inputVars>>

\* PerformanceOptimizer.setCache, as processWithCache calls it for a result
\* it has computed
SetCache ==
    \E k \in CacheKeys :
        /\ optimizerCache' = setCache(optimizerCache, k, k[2])
        /\ cacheUses' = Touch(SelectSeq(cacheUses,
                                        LAMBDA u : u \in KeysOf(optimizerCache')), k)
        /\ UNCHANGED <<engineVars, channelVars, inputVars>>

NextCache ==
    \/ CacheRead
    \/ SetCache

SpecCache == InitChannel /\ [][NextCache]_vars

\* a step that is a write: the written entry is the last of the cache
Written(k) ==
    /\ optimizerCache' # <<>>
    /\ optimizerCache'[Len(optimizerCache')].key = k
    /\ optimizerCache' = setCache(optimizerCache, k, k[2])

\* the key whose last read or write is oldest, when there is one
LeastRecentlyUsed == IF cacheUses = <<>> THEN {} ELSE {cacheUses[1]}

\* the keys a step removed, the written one apart
EvictedBy(k) == (KeysOf(optimizerCache) \ KeysOf(optimizerCache')) \ {k}

\* C19: the result cache never holds more than maxCacheSize entries; when a
\* write evicts an entry it evicts the least recently used one, the one whose
\* last read or write is oldest; overwriting an existing key evicts nothing
\* else.
C19_CachePolicy ==
    [][/\ Len(optimizerCache') <= maxCacheSize
       /\ \A k \in CacheKeys :
            Written(k) =>
                /\ EvictedBy(k) \subseteq LeastRecentlyUsed
                /\ k \in KeysOf(optimizerCache) => EvictedBy(k) = {}
      ]_vars

(***************************************************************************)
(* The classifier called directly: URLParser.parse, URLParser.isValid and  *)
(* URLParser.extractDomainParts on one string.  The string is the only     *)
(* entry of `urls`; the returned record is the only entry of the outcome's *)
(* results, and `success` is its `valid` (for extractDomainParts: that the *)
(* call returned).                                                         *)
(***************************************************************************)
MaxLabels == 4

Labels == {<<"a">>, <<"co">>, <<"uk">>, <<"com">>, <<"constructor">>}

\* the hostnames of one to MaxLabels labels
Hostnames == {join(ls, ".") : ls \in SeqsUpTo(Labels, MaxLabels) \ {<<>>}}

IPLiteral == <<"192", ".", "168", ".", "1", ".", "1">>

\* the strings of the test suite that are not plain hostnames, and their kin
OtherInputs ==
    {<<>>, <<WS>>,
     <<"not-a-url">>, <<"invalid-url">>,
     <<"://", "invalid">>, <<"://", "a">>, <<"://", "a", ".", "com">>,
     IPLiteral,
     <<"https", "://">> \o IPLiteral \o <<":", "8080">>,
     <<"localhost">>, <<"http", "://", "localhost", ":", "3000">>,
     <<"localhost", ":", "3000">>,
     <<"file", "://", "/", "local", "/", "path">>,
     <<"https", "://", "a", ".", "com", "/", "p", "?", "q">>}

ParserInputs ==
    Hostnames \cup {<<"https", "://">> \o h : h \in Hostnames} \cup OtherInputs

InitParser ==
    /\ urls \in {Arr(<<input>>) : input \in ParserInputs}
    /\ options = Option("", "", undefined)
    /\ pc = "idle"
    /\ entry = "none"
    /\ run = NoRun
    /\ outcome = NoOutcome
    /\ Constructed

\* the record as the outcome
Classified(record) == Outcome(record.valid, <<record>>, <<>>, resetStats, <<>>)

CallParse ==
    /\ pc = "idle"
    /\ outcome' = Classified(parse(urls.items[1]))
    /\ pc' = "done"
    /\ entry' = "parse"
    /\ UNCHANGED <<urls, options, run, channelVars, cacheVars, inputVars>>

CallIsValid ==
    /\ pc = "idle"
    /\ outcome' = Outcome(isValid(urls.items[1]), <<>>, <<>>, resetStats, <<>>)
    /\ pc' = "done"
    /\ entry' = "isValid"
    /\ UNCHANGED <<urls, options, run, channelVars, cacheVars, inputVars>>

CallExtractDomainParts ==
    /\ pc = "idle"
    /\ outcome' = The({Outcome(~parts.threw, <<parts>>, <<>>, resetStats, <<>>)
                       : parts \in {extractDomainParts(urls.items[1])}})
    /\ pc' = "done"
    /\ entry' = "extractDomainParts"
    /\ UNCHANGED <<urls, options, run, channelVars, cacheVars, inputVars>>

NextParser ==
    \/ CallParse
    \/ CallIsValid
    \/ CallExtractDomainParts

SpecParser == InitParser /\ [][NextParser]_vars

\* the labels of the string handed to the classifier
LabelsOf(hostname) == split(hostname, ".")

\* (secondLevel, topLevel) is a row of the compound-TLD table
InTable(secondLevel, topLevel) ==
    /\ Len(secondLevel) = 1 /\ Len(topLevel) = 1
    /\ secondLevel[1] \in DOMAIN commonSecondLevel
    /\ topLevel[1] \in commonSecondLevel[secondLevel[1]]

\* the parts the splitting rule gives a label sequence
PartsOf(hostname) ==
    LET parts == LabelsOf(hostname)
        n     == Len(parts)
    IN  IF n < 2 THEN DomainParts(<<>>, hostname, <<>>)
        ELSE IF n = 2 THEN DomainParts(<<>>, parts[1], parts[2])
        ELSE IF InTable(parts[n - 1], parts[n])
        THEN DomainParts(join(SubSeq(parts, 1, n - 3), "."), parts[n - 2], parts[n])
        ELSE DomainParts(join(SubSeq(parts, 1, n - 2), "."), parts[n - 1], parts[n])

\* C23: extractDomainParts over any dot-separated label sequence: fewer than
\* 2 labels give domain = hostname and empty subdomain and tld; 2 labels give
\* domain = label[0], tld = label[1], empty subdomain; 3 or more give the
\* third label from the end as domain when (second-to-last, last) is in the
\* compound-TLD table, the second-to-last otherwise, the subdomain everything
\* before it and the tld always the last label.
C23_HostnameSplitting ==
    Done({"extractDomainParts"}) =>
        /\ outcome.success
        /\ outcome.results = <<PartsOf(urls.items[1])>>

\* the strings whose host is an IP literal / is localhost
IPLiteralInputs == {IPLiteral, <<"https", "://">> \o IPLiteral \o <<":", "8080">>}

LocalhostInputs == {<<"localhost">>, <<"http", "://", "localhost", ":", "3000">>}

\* C24: an IP-literal host (192.168.1.1) and `localhost` classify as valid
\* URLs whose tld is the empty string.
C24_HostsWithoutTLD ==
    Done({"parse"}) /\ urls.items[1] \in IPLiteralInputs \cup LocalhostInputs =>
        /\ outcome.success
        /\ outcome.results[1].tld = <<>>

\* C25: for every result of parse on any input: parse never throws; if valid
\* is false only `original` and an `error` reason are set; if valid is true
\* the hostname is non-empty and the tld is empty only when the hostname has
\* fewer than 2 dot-separated labels.
C25_ClassifiedURLInvariant ==
    Done({"parse"}) =>
        /\ Len(outcome.results) = 1
        /\ outcome.results[1].original = urls.items[1]
        /\ ~outcome.results[1].valid =>
                DOMAIN outcome.results[1] = {"original", "valid", "error"}
        /\ outcome.results[1].valid =>
                /\ outcome.results[1].hostname # <<>>
                /\ outcome.results[1].tld = <<>> =>
                        Len(LabelsOf(outcome.results[1].hostname)) < 2

\* the string begins with a scheme of the URL constructor's
HasScheme(s) ==
    Len(s) >= 2 /\ s[2] \in {"://", ":"} /\ ToLowerTok(s[1]) \in Schemes \cup {"file"}

\* after normalization: no `.`, no recognized scheme, not localhost, not an
\* IP literal
PreCheckRejects(url) ==
    The({/\ ~includes(s, <<".">>)
         /\ ~HasScheme(s)
         /\ s = <<>> \/ s[1] # "localhost"
         /\ s # IPLiteral
         : s \in {normalizeUrl(url)}})

\* C26: an input that after normalization contains no `.` and no recognized
\* scheme and is neither localhost nor an IP literal (a bare word such as
\* invalid-url, or a string beginning with ://) is classified invalid by
\* parse and by isValid.
C26_PreCheck ==
    Done({"parse", "isValid"}) /\ PreCheckRejects(urls.items[1]) => ~outcome.success

(***************************************************************************)
(* The input area: TextAreaManager.getInputText and getInputLines.  A text *)
(* is a token sequence in which "\n" and "\r" are the line breaks ("\r\n"  *)
(* is the two in a row: the empty line between them is dropped like any    *)
(* blank line).                                                            *)
(***************************************************************************)
\* TextAreaManager.previewLineLimit (js/text-area-manager.js:12, 1000), scaled
previewLineLimit == 2

\* TextAreaManager.isPreviewMode: set by the constructor, never assigned again
isPreviewMode == TRUE

LineBreaks == {"\n", "\r"}

\* String.prototype.split(/\r\n|\r|\n/)
RECURSIVE splitAtLineBreaks(_)
splitAtLineBreaks(text) ==
    LET k == FirstIndex(text, LineBreaks) IN
    IF k > Len(text) THEN <<text>>
    ELSE <<SubSeq(text, 1, k - 1)>> \o splitAtLineBreaks(SubSeq(text, k + 1, Len(text)))

NonEmpty(line) == line # <<>>

splitIntoLines(text) ==
    IF text = <<>> THEN <<>>
    ELSE SelectSeq([i \in 1..Len(splitAtLineBreaks(text)) |->
                        trim(splitAtLineBreaks(text)[i])], NonEmpty)

\* a reading of the input area that leaves the checkbox out
getInputTextIgnoringCheckbox(value, all) ==
    IF Len(splitIntoLines(value)) <= previewLineLimit THEN value
    ELSE join(SubSeq(splitIntoLines(value), 1, previewLineLimit), "\n")

getInputText(value, all) ==
    IF all \/ ~isPreviewMode THEN value
    ELSE IF Len(splitIntoLines(value)) <= previewLineLimit THEN value
    ELSE join(SubSeq(splitIntoLines(value), 1, previewLineLimit), "\n")

getInputLines(value, all) == splitIntoLines(getInputText(value, all))

MaxText == 5

TextTokens == {"a", "b", WS, "\n", "\r"}

InitPreview ==
    /\ inputValue \in SeqsUpTo(TextTokens, MaxText)
    /\ processAll \in BOOLEAN
    /\ urls = Arr(<<>>)
    /\ options = Option("", "", undefined)
    /\ pc = "idle"
    /\ entry = "none"
    /\ run = NoRun
    /\ outcome = NoOutcome
    /\ Managers

\* the text read from the input area for a run
CallGetInputText ==
    /\ pc = "idle"
    /\ outcome' = Outcome(TRUE, <<getInputText(inputValue, processAll)>>, <<>>,
                          resetStats, <<>>)
    /\ pc' = "done"
    /\ entry' = "getInputText"
    /\ UNCHANGED <<urls, options, run, channelVars, cacheVars, inputVars>>

\* the lines read from the input area for a run
CallGetInputLines ==
    /\ pc = "idle"
    /\ outcome' = Outcome(TRUE, getInputLines(inputValue, processAll), <<>>,
                          resetStats, <<>>)
    /\ pc' = "done"
    /\ entry' = "getInputLines"
    /\ UNCHANGED <<urls, options, run, channelVars, cacheVars, inputVars>>

NextPreview ==
    \/ CallGetInputText
    \/ CallGetInputLines

SpecPreview == InitPreview /\ [][NextPreview]_vars

\* a line with a character that is not whitespace
NonBlankLine(line) == \E i \in 1..Len(line) : line[i] # WS

\* the non-blank lines of a text, in order, each without the whitespace
\* around it
NonBlankLines(text) ==
    The({[i \in 1..Len(kept) |-> trim(kept[i])]
         : kept \in {SelectSeq(splitAtLineBreaks(text), NonBlankLine)}})

\* the first n entries, all when there are no more
FirstLines(lines, n) == SubSeq(lines, 1, IF Len(lines) < n THEN Len(lines) ELSE n)

\* the lines the claim hands to processing
HandedToProcessing ==
    IF processAll THEN NonBlankLines(inputValue)
    ELSE FirstLines(NonBlankLines(inputValue), previewLineLimit)

\* C27: with processAll false the text handed to processing consists of
\* exactly the first previewLineLimit non-blank input lines in original
\* order (all of them when there are no more); with processAll true every
\* non-blank input line is handed on, whatever their number.
C27_PreviewMode ==
    /\ Done({"getInputText"}) => NonBlankLines(outcome.results[1]) = HandedToProcessing
    /\ Done({"getInputLines"}) => outcome.results = HandedToProcessing

\* an input of more lines than the limit has been read in preview mode and
\* was cut to the limit
C27_Witness ==
    /\ Done({"getInputLines"})
    /\ ~processAll
    /\ Len(NonBlankLines(inputValue)) > previewLineLimit
    /\ Len(outcome.results) = previewLineLimit

(***************************************************************************)
(* The chunk size of URLManager.processInChunks and the number of batches  *)
(* PerformanceOptimizer.processBatches makes of it, for an input of any    *)
(* length and any reading of the memory probe.  Only the length of the     *)
(* input plays a part, so the array is given by its length alone.          *)
(***************************************************************************)
MaxTotal == 11000

\* memoryInfo.usageRatio, in hundredths
UsageRatios == {0, 50, 70, 71, 90, 100}

ArrOfLength(n) == [kind |-> "array", length |-> n, items |-> <<>>]

InitChunks ==
    /\ urls \in {ArrOfLength(n) : n \in 0..MaxTotal}
    /\ options = Option("", "", undefined)
    /\ pc = "idle"
    /\ entry = "none"
    /\ run = NoRun
    /\ outcome = NoOutcome
    /\ Constructed

\* what processInChunks and processBatches compute before the first batch:
\* options.batchSize || this.batchSize, and Math.ceil(totalUrls / batchSize)
Chunking(usageRatio, size) ==
    [usageRatio |-> usageRatio,
     chunkSize  |-> size,
     batches    |-> Ceil(urls.length, IF size = 0 THEN batchSize ELSE size)]

CallProcessInChunks ==
    /\ pc = "idle"
    /\ \E usageRatio \in UsageRatios :
        outcome' = Outcome(TRUE,
                           <<Chunking(usageRatio,
                                      chunkSize(urls.length, usageRatio > 70))>>,
                           <<>>, resetStats, <<>>)
    /\ pc' = "done"
    /\ entry' = "processInChunks"
    /\ UNCHANGED <<urls, options, run, channelVars, cacheVars, inputVars>>

NextChunks == CallProcessInChunks

SpecChunks == InitChunks /\ [][NextChunks]_vars

\* the least number of chunks of the given size that hold `total` entries
ChunksNeeded(total, size) ==
    CHOOSE k \in 0..total : k * size >= total /\ (k > 0 => (k - 1) * size < total)

\* C28: the chunk size chosen for a run is between 100 and 1000 inclusive,
\* at most 500 whenever the memory probe reports usage above the high-water
\* threshold, and never 0; the number of chunks is ceil(total / chunkSize).
C28_ChunkSizeRule ==
    Done({"processInChunks"}) =>
        /\ outcome.results[1].chunkSize >= 100
        /\ outcome.results[1].chunkSize <= 1000
        /\ outcome.results[1].usageRatio > 70 => outcome.results[1].chunkSize <= 500
        /\ outcome.results[1].chunkSize # 0
        /\ outcome.results[1].batches =
                ChunksNeeded(urls.length, outcome.results[1].chunkSize)

\* a run large enough for chunks of 1000, cut to 500 by the memory probe, in
\* more than one chunk
C28_Witness ==
    /\ Done({"processInChunks"})
    /\ urls.length > 10000
    /\ outcome.results[1].usageRatio > 70
    /\ outcome.results[1].chunkSize = 500
    /\ outcome.results[1].batches > 20

(***************************************************************************)
(* The same request run twice on one PerformanceOptimizer: the second      *)
(* processBatches finds the cache the first one left.                      *)
(***************************************************************************)
RunAgain ==
    /\ pc = "done"
    /\ entry = "processBatches"
    /\ run' = batchesStart(urls.items, "process", options, run.batchSize, run.cache)
    /\ pc' = "batching"
    /\ entry' = "processBatchesAgain"
    /\ UNCHANGED <<urls, options, outcome>>
    /\ UNCHANGED <<channelVars, cacheVars, inputVars>>

NextRerun ==
    \/ StartBatches
    \/ BatchStep
    \/ FinishBatches
    \/ RunAgain

SpecRerun == Init /\ [][NextRerun]_vars

\* the cached value is what the engine returns for the url of the key alone
EngineOutputCached(e) ==
    process(Arr(<<e.key[2]>>), options.operation, options, FALSE).results
        = <<e.value>>

\* the second run has returned
Reran == Done({"processBatchesAgain"})

\* C29: the same request run twice on one PerformanceOptimizer returns, the
\* second time from the per-URL cache, the results of the first (cold) run,
\* and both are what the operation engine returns for the input without a
\* cache; a value cached for (operation signature, url) is the engine's
\* output for that very url.
C29_CacheTransparency ==
    /\ Done({"processBatches"}) \/ Reran => outcome.results = InProcess(FALSE).results
    /\ \A i \in 1..Len(run.cache) : EngineOutputCached(run.cache[i])

(***************************************************************************)
(* The runs of URLManager.processURLs against one another.                 *)
(***************************************************************************)
\* the runs that have passed startProcessing and have not reached `finally`
Executing(rs) == {r \in 1..Len(rs) : rs[r].state = "awaiting"}

\* the step brings run r to its `finally` while a later run goes on
FinishesBefore(r, later) ==
    /\ r < later
    /\ r \in Executing(runs) /\ r \notin Executing(runs')
    /\ later \in Executing(runs) /\ later \in Executing(runs')

\* C30: at most one processing run is executing at any time: processURLs
\* starts a new run only if no earlier run is still executing, an in-process
\* run abandoned by a timeout and still running in the background included,
\* and a finishing earlier run never clears isProcessing or the timeout timer
\* of a later run.
C30_SingleActiveRun ==
    [][/\ Cardinality(Executing(runs')) <= 1
       /\ Len(runs') > Len(runs) => Executing(runs) = {}
       /\ \A r \in 1..Len(runs) : \A later \in 1..Len(runs) :
            FinishesBefore(r, later) =>
                /\ isProcessing' = isProcessing
                /\ processingTimeout' = processingTimeout
      ]_vars

\* the output area shows the results of run r: of its in-process
\* computation or of a request it offloaded
ShowsResultsOf(r) ==
    \/ output = <<"run", r>>
    \/ \E id \in 1..Len(promises) :
          promises[id].run = r /\ output = <<"request", id>>

\* C31: once a run has been reported as timed out, the results of that run
\* are never written to the output area afterwards, though its in-process
\* computation may go on in the background.
C31_NoStaleResults ==
    \A r \in 1..Len(runs) : runs[r].timedOut => ~ShowsResultsOf(r)

\* the application with its processing timer firing: the callback that
\* setupProcessingTimeout hands to setTimeout runs once the timer is armed
SpecAppFair ==
    /\ SpecApp
    /\ WF_vars(ProcessingTimeout)

SpecChannelFair ==
    /\ SpecChannel
    /\ WF_vars(Deliver)
    /\ WF_vars(WorkerLoads)

\* a worker has a request to handle
HasRequest ==
    \E n \in 1..Len(threads) :
        threads[n].alive /\ threads[n].loaded /\ threads[n].inbox # <<>>

\* a worker that has a request to handle handles it
WorkersHandle == []<>(~HasRequest) \/ []<><<WorkerHandles>>_vars

\* request id has been accepted and its promise is not settled
PendingRequest(id) == id <= Len(promises) /\ promises[id].state = "pending"

\* C33: every request accepted by WorkerManager.processURLs is eventually
\* settled, exactly once: resolved by its `complete` message with success, or
\* rejected by a failed `complete`, its `error` message, a worker fault or
\* terminate(); no request stays pending forever.
C33_RequestSettlement ==
    /\ [][\A id \in 1..Len(promises) :
            ~PendingRequest(id) => promises'[id].state = promises[id].state]_vars
    /\ WorkersHandle =>
            \A id \in 1..MaxRequests : PendingRequest(id) ~> ~PendingRequest(id)

\* the initialize() call that made worker n was rejected by its timer: the
\* promise is rejected and no error event has reached the worker
InitTimedOut(n) == threads[n].init = "rejected" /\ ~threads[n].faulted

\* C34: once initialize() has rejected because of the initialization timeout,
\* a `ready` message that arrives afterwards does not make the manager ready:
\* as long as the worker of that call is the manager's worker (initialize()
\* has not been called again), isWorkerReady() is false.
C34_LateReady ==
    \A n \in 1..Len(threads) :
        InitTimedOut(n) /\ worker = n => ~isWorkerReady(Main)

\* run r was handed to the WorkerManager and the manager accepted its request
Accepted(r) == \E id \in 1..Len(promises) : promises[id].run = r

\* C35: URLManager never dispatches a run to a WorkerManager that is not
\* ready: every run routed to the worker has its request accepted, also the
\* run that follows a timeout or a reset that terminated the worker; no run
\* ends with 'Worker not initialized'.
C35_ReadyDispatch ==
    \A r \in 1..Len(runs) : runs[r].kind = "worker" => Accepted(r)

(***************************************************************************)
(* URLProcessor.deduplicate on its own, over entries that include hosts    *)
(* without a TLD.                                                          *)
(***************************************************************************)
DedupPool ==
    {<<"https", "://", "a", ".", "com">>,
     <<"https", "://", "A", ".", "com", "/", "p">>,
     <<"http", "://", "localhost">>,
     <<" ", "www", ".", "b", ".", "org">>,
     <<"://", "invalid">>}

DedupTypes == {"tld", "domain", "full"}

InitDedup ==
    /\ urls \in {Arr(items) : items \in SeqsUpTo(DedupPool, MaxLen)}
    /\ options = Option("", "", undefined)
    /\ pc = "idle"
    /\ entry = "none"
    /\ run = NoRun
    /\ outcome = NoOutcome
    /\ Constructed

CallDeduplicate ==
    /\ pc = "idle"
    /\ \E type \in DedupTypes :
        /\ options' = Option("deduplicate", type, undefined)
        /\ outcome' =
              The({Outcome(TRUE, d.results, <<>>,
                           [resetStats EXCEPT !.invalidCount = d.invalidCount],
                           <<>>)
                   : d \in {deduplicate(urls.items, type)}})
    /\ pc' = "done"
    /\ entry' = "deduplicate"
    /\ UNCHANGED <<urls, run, channelVars, cacheVars, inputVars>>

NextDedup == CallDeduplicate

SpecDedup == InitDedup /\ [][NextDedup]_vars

\* the entries of the input that classify as valid
ValidIndices(items) ==
    {i \in 1..Len(items) : ~IsBlankEntry(items[i]) /\ isValid(trim(items[i]))}

\* the component a subtype compares, lower-cased; empty for the TLD of a
\* host without one
ComparedPart(url, type) ==
    CASE type = "tld" -> toLowerCase(getTLD(url))
      [] type = "domain" -> toLowerCase(getFullDomain(url))
      [] OTHER -> toLowerCase(url)

\* C36: deduplicate is complete: for each subtype every valid input entry has
\* its key represented in the output, the output holds exactly one entry per
\* distinct key of the valid inputs, and only the entries that are not valid
\* are counted as invalid; a valid entry with an empty TLD (localhost) under
\* `tld` is kept under its empty key and is not counted as invalid.
C36_DedupCompleteness ==
    Done({"deduplicate"}) =>
        LET type == options.type
            valid == ValidIndices(urls.items)
            out == outcome.results
        IN  /\ \A i \in valid :
                  \E j \in 1..Len(out) :
                      ComparedPart(out[j], type) =
                          ComparedPart(trim(urls.items[i]), type)
            /\ \A j, k \in 1..Len(out) :
                  ComparedPart(out[j], type) = ComparedPart(out[k], type) => j = k
            /\ outcome.stats.invalidCount = Len(urls.items) - Cardinality(valid)

\* the first k chunks of a run over `items` in chunks of `size`, joined
RECURSIVE ChunksJoined(_, _, _)
ChunksJoined(items, size, k) ==
    IF k = 0 THEN <<>>
    ELSE ChunksJoined(items, size, k - 1) \o batchSlice(items, size, k - 1)

\* the chunks of a scheduler are consecutive, disjoint, non-empty slices that
\* cover the input in order: joined up to the k-th they are the first
\* min(k * size, total) entries, and none is empty
Covers(items, size) ==
    /\ \A k \in 0..Ceil(Len(items), size) :
          ChunksJoined(items, size, k) = SubSeq(items, 1, Min(k * size, Len(items)))
    /\ \A k \in 0..(Ceil(Len(items), size) - 1) : batchSlice(items, size, k) # <<>>
    /\ ChunksJoined(items, size, Ceil(Len(items), size)) = items

\* C37: the chunks of a scheduler are consecutive, non-overlapping, non-empty
\* slices that cover the input in increasing order, for the in-process
\* scheduler and for the worker's; the in-process scheduler emits one progress
\* event per chunk, the k-th reporting the end of the k-th chunk, and the last
\* one of a run that returns reports processed = total with percentage 100.
C37_ChunkCoverage ==
    /\ entry = "processBatches" /\ ~run.threw =>
          /\ Covers(run.urls, run.batchSize)
          /\ Len(run.progress) = run.batchIndex
          /\ \A k \in 1..Len(run.progress) :
                /\ run.progress[k].batchIndex = k
                /\ run.progress[k].processed =
                      Len(ChunksJoined(run.urls, run.batchSize, k))
          /\ pc = "done" =>
                /\ Len(run.progress) = Ceil(Len(run.urls), run.batchSize)
                /\ run.urls # <<>> =>
                      /\ run.progress[Len(run.progress)].processed = Len(run.urls)
                      /\ run.progress[Len(run.progress)].percentage = 100
    /\ Done(WorkerScripts) /\ urls.kind = "array" =>
          /\ Covers(urls.items, BATCH_SIZE)
          /\ \A i \in 1..Len(outcome.posts) :
                outcome.posts[i].type = "progress" =>
                    \E k \in 1..Ceil(urls.length, BATCH_SIZE) :
                        outcome.posts[i].processed =
                            Len(ChunksJoined(urls.items, BATCH_SIZE, k))

\* a run over three entries in chunks of two has returned: the second chunk
\* holds the one entry left, and the second event reports 3 of 3
C37_Witness ==
    /\ Done({"processBatches"}) /\ ~run.threw
    /\ Len(run.urls) = 3 /\ run.batchSize = 2
    /\ Len(batchSlice(run.urls, 2, 1)) = 1
    /\ Len(run.progress) = 2
    /\ run.progress[2].processed = 3

\* what the same call returns on the synchronous path
SynchronousOutcome == Returns(process(urls, options.operation, options, FALSE))

\* C38: with a PerformanceOptimizer and an input above the large-dataset
\* threshold, URLProcessor.process returns the same success flag, results,
\* errors and counters as the synchronous path on the whole input; the
\* optimized path never turns a valid request into a failure.
C38_LargeInputPath ==
    Done({"processOptimized"}) /\ urls.kind = "array"
    /\ urls.length > LARGE_DATASET =>
        /\ outcome = SynchronousOutcome
        /\ SynchronousOutcome.success => outcome.success

====
